---- MODULE Spec2Model ----
(***************************************************************************)
(* A model of the roll-point raffle tool: the core functions of core.ts    *)
(* (src/unnamed/part_003) and the parts of the React application           *)
(* (src/unnamed/part_001) that own the record collection.                  *)
(*                                                                         *)
(* Text is modelled as a sequence of one-character strings.  Characters    *)
(* outside ASCII are written by their code point, "u+63B7" for U+63B7.     *)
(***************************************************************************)
EXTENDS Integers, Sequences, FiniteSets, TLC

VARIABLES
    \* ---- state of the App component (part_001:43-77)
    rollInput,      \* useState('')  the pasted chat log
    slots,          \* useState(1)   slot count == winner count
    pickStrategy,   \* useState('min')
    staffId,        \* useState('')
    serviceName,    \* useState('')
    allRecords,     \* useState([])  the record collection
    resultMessage,  \* useState('')
    currentPage,    \* useState('welcome')
    userRole,       \* useState(null)
    loginPassword,  \* useState('')
    \* ---- environment of generateId (part_003:61)
    now,            \* the value Date.now() returns
    \* ---- history: the id of every record createTransactionRecord has returned
    created,
    \* ---- the stores the open instances of App share (part_001:80-310)
    database,       \* whether firebase.ts exports a database (part_002:19-31)
    tabs,           \* the state of each instance of App
    storage,        \* the item 'ffxiv-roll-records' of localStorage, by browser
    remote,         \* the value of rollRecords in the Firebase database
    \* ---- one call of a core function: position, arguments, result
    pc,
    call,
    ret

navVars == <<currentPage, userRole, loginPassword>>
syncVars == <<database, tabs, storage, remote>>
appVars == <<rollInput, slots, pickStrategy, staffId, serviceName, allRecords,
             resultMessage, now, created, navVars, syncVars>>
callVars == <<pc, call, ret>>
vars == <<rollInput, slots, pickStrategy, staffId, serviceName, allRecords,
          resultMessage, now, created, navVars, syncVars, pc, call, ret>>

(***************************************************************************)
(* Bounds of the model.                                                    *)
(***************************************************************************)
MaxRolls == 3        \* longest roll sequence handed to pickCustomersByRoll
MaxWinner == 3       \* largest winnerCount handed to pickCustomersByRoll

(***************************************************************************)
(* Generic helpers.                                                        *)
(***************************************************************************)
Min2(a, b) == IF a <= b THEN a ELSE b
Max2(a, b) == IF a >= b THEN a ELSE b
Range(s) == {s[i] : i \in 1..Len(s)}
SeqsUpTo(S, n) == UNION {[1..k -> S] : k \in 0..n}
Occurrences(s, e) == Cardinality({i \in 1..Len(s) : s[i] = e})

\* The entries of s whose rollValue is v, in the order of s.
OfValue(s, v) == SelectSeq(s, LAMBDA e : e.rollValue = v)

\* s with one occurrence of each entry of t removed (multiset difference).
RECURSIVE RemoveAll(_, _)
RemoveFirst(s, e) ==
    IF \E i \in 1..Len(s) : s[i] = e
    THEN LET i == CHOOSE i \in 1..Len(s) : s[i] = e /\ \A j \in 1..(i-1) : s[j] # e
         IN SubSeq(s, 1, i-1) \o SubSeq(s, i+1, Len(s))
    ELSE s
RemoveAll(s, t) ==
    IF t = <<>> THEN s ELSE RemoveAll(RemoveFirst(s, Head(t)), Tail(t))

(***************************************************************************)
(* Array.prototype.slice(start, end): negative indices count from the end, *)
(* both are clamped to [0, length].                                        *)
(***************************************************************************)
SliceIndex(k, len) == IF k < 0 THEN Max2(len + k, 0) ELSE Min2(k, len)
Slice(s, start, end) ==
    SubSeq(s, SliceIndex(start, Len(s)) + 1, SliceIndex(end, Len(s)))

(***************************************************************************)
(* pickCustomersByRoll (part_003:65-75).                                   *)
(***************************************************************************)
\* The comparator handed to sort: negative when a goes before b.
compareRolls_Swapped(pick, a, b) ==
    IF pick = "max" THEN a.rollValue - b.rollValue ELSE b.rollValue - a.rollValue
compareRolls(pick, a, b) ==
    IF pick = "max" THEN b.rollValue - a.rollValue ELSE a.rollValue - b.rollValue

\* Array.prototype.sort is stable (ECMAScript 2019): an element goes after
\* every element that does not compare greater than it.
RECURSIVE InsertSorted_Unstable(_, _, _)
InsertSorted_Unstable(sorted, x, pick) ==
    IF sorted = <<>> THEN <<x>>
    ELSE IF compareRolls(pick, Head(sorted), x) < 0
         THEN <<Head(sorted)>> \o InsertSorted_Unstable(Tail(sorted), x, pick)
         ELSE <<x>> \o sorted
RECURSIVE InsertSorted(_, _, _)
InsertSorted(sorted, x, pick) ==
    IF sorted = <<>> THEN <<x>>
    ELSE IF compareRolls(pick, Head(sorted), x) <= 0
         THEN <<Head(sorted)>> \o InsertSorted(Tail(sorted), x, pick)
         ELSE <<x>> \o sorted
RECURSIVE SortRolls(_, _)
SortRolls(s, pick) ==
    IF s = <<>> THEN <<>>
    ELSE InsertSorted(SortRolls(SubSeq(s, 1, Len(s) - 1), pick), s[Len(s)], pick)

pickCustomersByRoll_NoSlice(customers, pick, winnerCount) ==
    IF Len(customers) = 0 \/ winnerCount <= 0 THEN <<>>
    ELSE SortRolls(customers, pick)
pickCustomersByRoll_NoGuard(customers, pick, winnerCount) ==
    IF Len(customers) = 0 \/ winnerCount = 0 THEN <<>>
    ELSE Slice(SortRolls(customers, pick), 0, winnerCount)
pickCustomersByRoll(customers, pick, winnerCount) ==
    IF Len(customers) = 0 \/ winnerCount <= 0 THEN <<>>
    ELSE Slice(SortRolls(customers, pick), 0, winnerCount)

(***************************************************************************)
(* Values the model draws its inputs from.                                 *)
(***************************************************************************)
Strategies == {"max", "min"}
SampleIds == {<<"A">>, <<"B">>, <<"C">>}
SampleValues == {50, 90}
SampleRolls == [customerId : SampleIds, rollValue : SampleValues]
Roll(id, v) == [customerId |-> id, rollValue |-> v]

\* userRole is null before a login.
NoRole == "null"

\* The navigation state right after construction (part_001:43-45).
NavInit ==
    /\ currentPage = "welcome"
    /\ userRole = NoRole
    /\ loginPassword = <<>>

\* No instance of App is open, and nothing is stored.
SyncOff ==
    /\ database = FALSE
    /\ tabs = <<>>
    /\ storage = <<>>
    /\ remote = <<>>

\* The state of the App component right after construction (part_001:43-61).
AppInit ==
    /\ NavInit
    /\ SyncOff
    /\ rollInput = <<>>
    /\ slots = 1
    /\ pickStrategy = "min"
    /\ staffId = <<>>
    /\ serviceName = <<>>
    /\ allRecords = <<>>
    /\ resultMessage = <<>>
    /\ now = 0
    /\ created = <<>>

(***************************************************************************)
(* SpecSelect: one call of pickCustomersByRoll on bounded inputs.          *)
(***************************************************************************)
InitSelect ==
    /\ AppInit
    /\ pc = "called"
    /\ call \in [op : {"pickCustomersByRoll"},
                 customers : SeqsUpTo(SampleRolls, MaxRolls),
                 pick : Strategies,
                 winnerCount : (-2)..MaxWinner]
    /\ ret = <<>>

PickReturn ==
    /\ pc = "called"
    /\ call.op = "pickCustomersByRoll"
    /\ ret' = pickCustomersByRoll(call.customers, call.pick, call.winnerCount)
    /\ pc' = "returned"
    /\ UNCHANGED <<call, appVars>>

NextSelect == PickReturn
SpecSelect == InitSelect /\ [][NextSelect]_vars

Picked == pc = "returned" /\ call.op = "pickCustomersByRoll"

\* C1: for a non-empty roll sequence and winnerCount >= 1 the result has
\* min(winnerCount, length) entries and selects no entry more often than the
\* input holds it.
C1_SelectorSubset ==
    (Picked /\ call.customers # <<>> /\ call.winnerCount >= 1) =>
        /\ Len(ret) = Min2(call.winnerCount, Len(call.customers))
        /\ \A e \in Range(ret) : Occurrences(ret, e) <= Occurrences(call.customers, e)
C1_Witness ==
    /\ Picked
    /\ Len(call.customers) = 3 /\ call.winnerCount = 2 /\ Len(ret) = 2
    /\ call.customers[1] = call.customers[3]

\* C2: ties are broken by input order: of the input entries with one
\* rollValue the result holds an initial part, in input order; and
\* select([{A,50},{B,90},{C,90}], max, 1) = [{B,90}].
C2_Example == <<Roll(<<"A">>, 50), Roll(<<"B">>, 90), Roll(<<"C">>, 90)>>
C2_TieBreak ==
    Picked =>
        /\ \A v \in SampleValues :
              OfValue(ret, v) = SubSeq(OfValue(call.customers, v), 1, Len(OfValue(ret, v)))
        /\ (call.customers = C2_Example /\ call.pick = "max" /\ call.winnerCount = 1)
              => ret = <<Roll(<<"B">>, 90)>>
C2_Witness ==
    /\ Picked
    /\ call.customers = C2_Example /\ call.pick = "max" /\ call.winnerCount = 1
    /\ ret = <<Roll(<<"B">>, 90)>>

\* C3: every selected rollValue is >= (max) or <= (min) every rollValue that
\* is not selected, and the result is ordered descending (max) or ascending
\* (min) by rollValue.
Before(pick, v, w) == IF pick = "max" THEN v >= w ELSE v <= w
C3_Monotone ==
    Picked =>
        /\ \A e \in Range(ret) : \A f \in Range(RemoveAll(call.customers, ret)) :
              Before(call.pick, e.rollValue, f.rollValue)
        /\ \A i \in 1..(Len(ret) - 1) :
              Before(call.pick, ret[i].rollValue, ret[i+1].rollValue)
C3_Witness ==
    /\ Picked
    /\ call.pick = "min" /\ call.winnerCount = 2 /\ Len(call.customers) = 3
    /\ call.customers[1].rollValue = 90 /\ call.customers[2].rollValue = 50
    /\ call.customers[3].rollValue = 50
    /\ Len(ret) = 2

\* C4: an empty roll sequence or a winnerCount <= 0 (a negative one too)
\* gives the empty result.
C4_EmptyResult ==
    (Picked /\ (call.customers = <<>> \/ call.winnerCount <= 0)) => ret = <<>>
C4_Witness ==
    /\ Picked
    /\ Len(call.customers) = 3 /\ call.winnerCount = -1 /\ ret = <<>>

(***************************************************************************)
(* Characters and text.                                                    *)
(***************************************************************************)
LF == "u+000A"            \* line feed
TAB == "u+0009"
CR == "u+000D"
IDSP == "u+3000"          \* ideographic space
ZHI == "u+63B7"           \* the verb "throw"
ZHI2 == "u+64F2"          \* the verb, traditional form
CHU == "u+51FA"           \* the particle "out"
LE == "u+4E86"            \* the particle of completion
DIAN == "u+70B9"          \* "points"
ZUI == "u+6700"           \* first character of "maximum"
DA == "u+5927"            \* second character of "maximum"
FLP == "u+FF08"           \* full-width (
FRP == "u+FF09"           \* full-width )
LLB == "u+3010"           \* left lenticular bracket
RLB == "u+3011"           \* right lenticular bracket
FEX == "u+FF01"           \* full-width !

\* \s of a regular expression and the characters String.prototype.trim removes.
WhiteSpaceChars == {" ", TAB, CR, LF, IDSP}
IsSpace(c) == c \in WhiteSpaceChars
\* . of a regular expression: anything but a line terminator.
IsDotChar(c) == c \notin {LF, CR}

DigitSeq == <<"0", "1", "2", "3", "4", "5", "6", "7", "8", "9">>
DigitChars == Range(DigitSeq)
IsDigit(c) == c \in DigitChars
DigitValue(c) == CHOOSE d \in 0..9 : DigitSeq[d + 1] = c

AsciiLetters ==
    {"A", "B", "C", "D", "E", "F", "G", "H", "I", "J", "K", "L", "M", "N", "O", "P",
     "Q", "R", "S", "T", "U", "V", "W", "X", "Y", "Z",
     "a", "b", "c", "d", "e", "f", "g", "h", "i", "j", "k", "l", "m", "n", "o", "p",
     "q", "r", "s", "t", "u", "v", "w", "x", "y", "z"}
\* The characters of the model's alphabet that lie in [\u4e00-\u9fa5].
CJKChars == {ZHI, ZHI2, CHU, LE, DIAN, ZUI, DA}
\* [\u4e00-\u9fa5A-Za-z0-9_\- ] of part_003:249.
WordChars == CJKChars \cup AsciiLetters \cup DigitChars \cup {"_", "-", " "}
\* the opening and the closing character class of part_003:248.
OpenChars == {"[", "(", FLP, LLB, "<"}
CloseChars == {"]", ")", FRP, RLB, ">"}

\* `${n}` of a template literal, for an integer n.
RECURSIVE NatToString(_)
NatToString(n) ==
    IF n < 10 THEN <<DigitSeq[n + 1]>>
    ELSE NatToString(n \div 10) \o <<DigitSeq[(n % 10) + 1]>>
IntToString(n) == IF n < 0 THEN <<"-">> \o NatToString(-n) ELSE NatToString(n)

\* parseInt(ds, 10) of a non-empty run of digits.
RECURSIVE ParseInt(_)
ParseInt(ds) ==
    IF ds = <<>> THEN 0
    ELSE 10 * ParseInt(SubSeq(ds, 1, Len(ds) - 1)) + DigitValue(ds[Len(ds)])

\* String.prototype.split('\n').
RECURSIVE SplitLines(_)
SplitLines(s) ==
    IF \E i \in 1..Len(s) : s[i] = LF
    THEN LET i == CHOOSE i \in 1..Len(s) : s[i] = LF /\ \A j \in 1..(i-1) : s[j] # LF
         IN <<SubSeq(s, 1, i - 1)>> \o SplitLines(SubSeq(s, i + 1, Len(s)))
    ELSE <<s>>

\* Array.prototype.join.
RECURSIVE Join(_, _)
Join(parts, sep) ==
    IF parts = <<>> THEN <<>>
    ELSE IF Len(parts) = 1 THEN parts[1]
    ELSE parts[1] \o sep \o Join(Tail(parts), sep)

\* String.prototype.trim.
RECURSIVE TrimStart(_)
TrimStart(s) == IF s # <<>> /\ IsSpace(Head(s)) THEN TrimStart(Tail(s)) ELSE s
RECURSIVE TrimEnd(_)
TrimEnd(s) ==
    IF s # <<>> /\ IsSpace(s[Len(s)]) THEN TrimEnd(SubSeq(s, 1, Len(s) - 1)) ELSE s
Trim_StartOnly(s) == TrimStart(s)
Trim(s) == TrimEnd(TrimStart(s))

\* String.prototype.includes.
Includes(s, t) == \E i \in 1..(Len(s) - Len(t) + 1) : SubSeq(s, i, i + Len(t) - 1) = t

(***************************************************************************)
(* parseBatchCustomerRolls (part_003:230-258).                             *)
(***************************************************************************)
\* The position after \s* tried at position p: a run of white space is
\* followed by a character that is none, so the run is taken whole.
RECURSIVE SkipSpaces(_, _)
SkipSpaces(s, p) ==
    IF p <= Len(s) /\ IsSpace(s[p]) THEN SkipSpaces(s, p + 1) ELSE p
\* The position after the run of digits that starts at p.
RECURSIVE SkipDigits(_, _)
SkipDigits(s, p) ==
    IF p <= Len(s) /\ IsDigit(s[p]) THEN SkipDigits(s, p + 1) ELSE p
\* The length of the verb (?:ZHI|ZHI2|roll|ROLL) at position p, 0 for none.
VerbLength_NoRoll(s, p) ==
    IF p <= Len(s) /\ s[p] \in {ZHI, ZHI2} THEN 1 ELSE 0
VerbLength(s, p) ==
    IF p <= Len(s) /\ s[p] \in {ZHI, ZHI2} THEN 1
    ELSE IF p + 3 <= Len(s)
            /\ SubSeq(s, p, p + 3) \in {<<"r", "o", "l", "l">>, <<"R", "O", "L", "L">>}
         THEN 4
         ELSE 0
\* The position after an optional character c at position p.
SkipOptional(s, p, c) == IF p <= Len(s) /\ s[p] = c THEN p + 1 ELSE p

\* The part of the pattern after the name fragment,
\*   \s* verb (CHU)? (LE)? \s* (\d{1,4}) \s* DIAN,
\* tried at position p: whether it matches, and where the digits are.
\* \d{1,4} must take the whole run of digits: what follows it is white space
\* or DIAN, so a run of five or more digits matches nowhere.
RollTail(s, p) ==
    LET verbAt == SkipSpaces(s, p)
        verbLen == VerbLength(s, verbAt)
        afterChu == SkipOptional(s, verbAt + verbLen, CHU)
        afterLe == SkipOptional(s, afterChu, LE)
        digitsAt == SkipSpaces(s, afterLe)
        digitsEnd == SkipDigits(s, digitsAt)
        dianAt == SkipSpaces(s, digitsEnd)
    IN [matches |-> /\ verbLen > 0
                    /\ digitsEnd - digitsAt \in 1..4
                    /\ dianAt <= Len(s)
                    /\ s[dianAt] = DIAN,
        digits |-> SubSeq(s, digitsAt, digitsEnd - 1)]

\* line.match(/^(.+?)\s*(?:...)(?:CHU)?(?:LE)?\s*(\d{1,4})\s*DIAN/): the name
\* fragment (.+?) is lazy, so it is the shortest non-empty prefix of
\* non-terminator characters after which the rest of the pattern matches.
NameEnds(line) ==
    {i \in 1..Len(line) :
        /\ \A j \in 1..i : IsDotChar(line[j])
        /\ RollTail(line, i + 1).matches}
MatchRoll(line) ==
    IF NameEnds(line) = {} THEN [matches |-> FALSE]
    ELSE LET i == CHOOSE i \in NameEnds(line) : \A j \in NameEnds(line) : i <= j
         IN [matches |-> TRUE,
             name |-> SubSeq(line, 1, i),
             digits |-> RollTail(line, i + 1).digits]

HasMaxAnnotation_FullWidthOnly(line) == Includes(line, <<FLP, ZUI, DA>>)

\* line.includes(FLP ZUI DA) || line.includes('(' ZUI DA)   (part_003:243)
HasMaxAnnotation(line) ==
    Includes(line, <<FLP, ZUI, DA>>) \/ Includes(line, <<"(", ZUI, DA>>)

StripTagPrefix_None(s) == s

\* rawName.replace(/^[open][^close]+[close]\s*/g, '')   (part_003:248).
\* The pattern is anchored at the start of the string, so the g flag finds no
\* second match: one leading tag is removed.
StripTagPrefix(s) ==
    LET closers == {i \in 2..Len(s) : s[i] \in CloseChars}
    IN IF s # <<>> /\ s[1] \in OpenChars /\ closers # {}
       THEN LET c == CHOOSE c \in closers : \A d \in closers : c <= d
            IN IF c >= 3 THEN SubSeq(s, SkipSpaces(s, c + 1), Len(s)) ELSE s
       ELSE s

\* rawName.replace(/^[^word]+|[^word]+$/g, '')   (part_003:249): the leading
\* and the trailing run of characters outside the word class are removed.
RECURSIVE StripLeadingNonWord(_)
StripLeadingNonWord(s) ==
    IF s # <<>> /\ Head(s) \notin WordChars THEN StripLeadingNonWord(Tail(s)) ELSE s
RECURSIVE StripTrailingNonWord(_)
StripTrailingNonWord(s) ==
    IF s # <<>> /\ s[Len(s)] \notin WordChars
    THEN StripTrailingNonWord(SubSeq(s, 1, Len(s) - 1))
    ELSE s
StripNonWord(s) == StripTrailingNonWord(StripLeadingNonWord(s))

\* The callback of the second map (part_003:235-256): the CustomerRoll of a
\* trimmed, non-empty line, as a sequence of none or one.
ParseLine(line) ==
    LET match == MatchRoll(line)
    IN IF ~match.matches THEN <<>>
       ELSE IF HasMaxAnnotation(line) THEN <<>>
       ELSE LET customerId == Trim(StripNonWord(StripTagPrefix(match.name)))
                rollValue == ParseInt(match.digits)
            IN IF customerId = <<>> THEN <<>>
               ELSE <<[customerId |-> customerId, rollValue |-> rollValue]>>

RECURSIVE ParseLines_LastFirst(_)
ParseLines_LastFirst(lines) ==
    IF lines = <<>> THEN <<>>
    ELSE LET line == Trim(Head(lines))
         IN ParseLines_LastFirst(Tail(lines))
            \o (IF line = <<>> THEN <<>> ELSE ParseLine(line))

RECURSIVE ParseLines(_)
ParseLines(lines) ==
    IF lines = <<>> THEN <<>>
    ELSE LET line == Trim(Head(lines))
         IN (IF line = <<>> THEN <<>> ELSE ParseLine(line)) \o ParseLines(Tail(lines))

parseBatchCustomerRolls(input) == ParseLines(SplitLines(input))

(***************************************************************************)
(* generateId and createTransactionRecord (part_003:60-103).               *)
(***************************************************************************)
\* null
Null == [isNull |-> TRUE]

\* 'T-' + Date.now() + '-' + Math.random().toString(36).substring(2, 8):
\* clock is the value of Date.now(), suffix the characters drawn at random.
generateId(clock, suffix) == <<"T", "-">> \o NatToString(clock) \o <<"-">> \o suffix

\* selectedCustomers[0] ?? null
FirstOrNull(s) == IF Len(s) > 0 THEN s[1] ELSE Null

createTransactionRecord_AmountWinners(customers, staff, service, amount, money, refusalType, pick, winnerCount, clock, suffix) ==
    LET selectedCustomers == pickCustomersByRoll(customers, pick, amount)
    IN [id |-> generateId(clock, suffix),
        time |-> clock,
        customers |-> customers,
        selectedCustomers |-> selectedCustomers,
        selectedCustomer |-> FirstOrNull(selectedCustomers),
        staffId |-> staff,
        serviceName |-> service,
        amount |-> amount,
        money |-> money,
        refusalType |-> refusalType,
        pickStrategy |-> pick,
        winnerCount |-> winnerCount]
createTransactionRecord(customers, staff, service, amount, money, refusalType, pick, winnerCount, clock, suffix) ==
    LET selectedCustomers == pickCustomersByRoll(customers, pick, winnerCount)
    IN [id |-> generateId(clock, suffix),
        time |-> clock,
        customers |-> customers,
        selectedCustomers |-> selectedCustomers,
        selectedCustomer |-> FirstOrNull(selectedCustomers),
        staffId |-> staff,
        serviceName |-> service,
        amount |-> amount,
        money |-> money,
        refusalType |-> refusalType,
        pickStrategy |-> pick,
        winnerCount |-> winnerCount]

(***************************************************************************)
(* generateRollResultMessage (part_003:106-128).  A string literal of the  *)
(* source is one element of the text, named by its meaning.                *)
(***************************************************************************)
NoticeNoCustomers == <<"{no qualifying customers were selected; check the input data or the slot count}">>
NoRefusal == <<"{no refusal}">>           \* the refusal type of part_003:124
Unfilled == <<"{unfilled}">>              \* the placeholder of part_001:362

WinnerLine_FromZero(c, idx) ==
    NatToString(idx - 1) \o <<".", " ">> \o c.customerId \o <<FLP>>
        \o IntToString(c.rollValue) \o <<DIAN, FRP>>

\* `${idx + 1}. ${c.customerId}(${c.rollValue} points)`
WinnerLine(c, idx) ==
    NatToString(idx) \o <<".", " ">> \o c.customerId \o <<FLP>>
        \o IntToString(c.rollValue) \o <<DIAN, FRP>>
WinnerLines(selected) ==
    Join([i \in 1..Len(selected) |-> WinnerLine(selected[i], i)], <<"u+FF1B">>)

generateRollResultMessage_MoneyAlways(tr) ==
    IF Len(tr.selectedCustomers) = 0 THEN NoticeNoCustomers
    ELSE <<"{roll finished; selected }">> \o NatToString(Len(tr.selectedCustomers))
            \o <<"{ customers: }">> \o WinnerLines(tr.selectedCustomers) \o <<"{.}">>
         \o <<LF, "{teacher }">> \o tr.staffId \o <<"{ will provide [}">>
            \o tr.serviceName \o <<"{] service, slots: }">>
            \o IntToString(tr.amount) \o <<"{.}">>
         \o <<LF, "{rule: }">>
            \o (IF tr.pickStrategy = "max" THEN <<"{highest}">> ELSE <<"{lowest}">>)
         \o <<LF, "{amount: }">> \o IntToString(tr.money) \o <<"{ gold}">>

generateRollResultMessage(tr) ==
    IF Len(tr.selectedCustomers) = 0 THEN NoticeNoCustomers
    ELSE LET pickText == IF tr.pickStrategy = "max" THEN <<"{highest}">> ELSE <<"{lowest}">>
             staffText == IF tr.staffId # <<>> THEN <<"[">> \o tr.staffId \o <<"]">>
                          ELSE <<"{(unfilled)}">>
             serviceText == IF tr.serviceName # <<>> THEN tr.serviceName
                            ELSE <<"{(unfilled)}">>
             count == NatToString(Len(tr.selectedCustomers))
         IN <<"{roll finished; selected }">> \o count \o <<"{ customers: }">>
                \o WinnerLines(tr.selectedCustomers) \o <<"{.}">>
            \o <<LF, "{teacher }">> \o staffText \o <<"{ will provide [}">> \o serviceText
                \o <<"{] service, slots: }">> \o IntToString(tr.amount) \o <<"{.}">>
            \o <<LF, "{rule: }">> \o pickText \o <<"{ points first; the }">> \o count
                \o <<"{ please wait for my private message}">>
            \o (IF tr.money # 0
                THEN <<LF, "{amount: }">> \o IntToString(tr.money) \o <<"{ gold}">>
                ELSE <<>>)
            \o (IF tr.refusalType # <<>> /\ tr.refusalType # NoRefusal
                THEN <<LF, "{refusal type: }">> \o tr.refusalType \o <<"{ (settled)}">>
                ELSE <<>>)

(***************************************************************************)
(* SpecRound: parse a pasted text, build a record from the parsed rolls    *)
(* and render it, one call after the other, on bounded inputs.             *)
(***************************************************************************)
MaxLines == 2        \* most lines of a pasted text
MaxCount == 2        \* largest winnerCount handed to the builder

\* Lines a chat log may hold.  By section 4.1 of the specification the first
\* three are roll lines and the others are not.
LinePlain == <<"A", " ", ZHI, CHU, LE, " ", "9", "0", " ", DIAN, FEX>>
LineTagged == <<"[", "T", "]", " ", "B", " ", ZHI, CHU, LE, "5", "0", DIAN>>
LineRoll == <<" ", "C", " ", "r", "o", "l", "l", " ", "9", "0", DIAN, " ">>
LineMax == <<"A", ZHI, "7", DIAN, FLP, ZUI, DA, "9", FRP>>
LineNoise == <<"h", "i", " ", "5", "0">>
LineFiveDigits == <<"B", ZHI, CHU, "1", "2", "3", "4", "5", DIAN>>
LineNoName == <<FEX, ZHI, "5", DIAN>>
LineBlank == <<" ", TAB>>
RollLines == {LinePlain, LineTagged, LineRoll}
OtherLines == {LineMax, LineNoise, LineFiveDigits, LineNoName, LineBlank}
LinePool == RollLines \cup OtherLines
\* The lines the pasted texts of SpecRound are made of.
RoundLines == RollLines \cup {LineMax, LineNoise, LineNoName}

\* Math.random().toString(36).substring(2, 8), as the model draws it.
RandomSuffixes == {<<"k", "3">>, <<"z", "q">>}

StaffNames == {<<>>, <<"S">>}
ServiceNames == {<<>>, <<"V">>}
RefusalTypes == {NoRefusal, <<"{schedule conflict}">>}
MoneyValues == {0, 5}
AmountValues == {1, 2}

InitRound ==
    /\ AppInit
    /\ pc = "text"
    /\ \E lines \in SeqsUpTo(RoundLines, MaxLines) :
          call \in [op : {"roundTrip"},
                    lines : {lines},
                    text : {Join(lines, <<LF>>)},
                    staffId : StaffNames,
                    serviceName : ServiceNames,
                    amount : AmountValues,
                    money : MoneyValues,
                    refusalType : RefusalTypes,
                    pickStrategy : Strategies,
                    winnerCount : (-1)..MaxCount]
    /\ ret = <<>>

ParseReturn ==
    /\ pc = "text"
    /\ ret' = [customers |-> parseBatchCustomerRolls(call.text)]
    /\ pc' = "parsed"
    /\ UNCHANGED <<call, appVars>>

BuildReturn ==
    /\ pc = "parsed"
    /\ \E suffix \in RandomSuffixes :
          LET record == createTransactionRecord(ret.customers, call.staffId,
                            call.serviceName, call.amount, call.money,
                            call.refusalType, call.pickStrategy, call.winnerCount,
                            now, suffix)
          IN /\ ret' = [customers |-> ret.customers, record |-> record]
             /\ created' = Append(created, record.id)
    /\ pc' = "built"
    /\ UNCHANGED <<call, rollInput, slots, pickStrategy, staffId, serviceName,
                   allRecords, resultMessage, now, navVars, syncVars>>

RenderReturn ==
    /\ pc = "built"
    /\ ret' = [customers |-> ret.customers, record |-> ret.record,
               message |-> generateRollResultMessage(ret.record)]
    /\ pc' = "rendered"
    /\ UNCHANGED <<call, appVars>>

NextRound == ParseReturn \/ BuildReturn \/ RenderReturn
SpecRound == InitRound /\ [][NextRound]_vars

Built == pc \in {"built", "rendered"}
Rendered == pc = "rendered"

\* sel is the selection of n entries of customers under strategy pick: the
\* entries that sort first, in sorted order, ties in input order.
IsSelectionOf(sel, customers, pick, n) ==
    /\ Len(sel) = IF n > 0 /\ customers # <<>> THEN Min2(n, Len(customers)) ELSE 0
    /\ \A i \in 1..(Len(sel) - 1) : Before(pick, sel[i].rollValue, sel[i+1].rollValue)
    /\ \A e \in Range(sel) : \A f \in Range(RemoveAll(customers, sel)) :
          Before(pick, e.rollValue, f.rollValue)
    /\ \A e \in Range(customers) :
          OfValue(sel, e.rollValue)
              = SubSeq(OfValue(customers, e.rollValue), 1, Len(OfValue(sel, e.rollValue)))
    /\ \A e \in Range(sel) : e \in Range(customers)

\* C5: a record returned by createTransactionRecord holds as selectedCustomers
\* the sorted-and-truncated selection of its own customers under its own
\* pickStrategy and winnerCount (empty when winnerCount <= 0 or there are no
\* customers), and as selectedCustomer the first of them, or null.
C5_RecordSelection ==
    Built =>
        LET r == ret.record
        IN /\ r.customers = ret.customers
           /\ r.pickStrategy = call.pickStrategy
           /\ r.winnerCount = call.winnerCount
           /\ IsSelectionOf(r.selectedCustomers, r.customers, r.pickStrategy, r.winnerCount)
           /\ r.selectedCustomer
                 = IF r.selectedCustomers = <<>> THEN Null ELSE r.selectedCustomers[1]
C5_Witness ==
    /\ Built
    /\ Len(ret.record.customers) = 2
    /\ call.winnerCount = 1 /\ call.amount = 2
    /\ ret.record.customers[1].rollValue = ret.record.customers[2].rollValue
    /\ ret.record.selectedCustomers = <<ret.record.customers[1]>>
    /\ ret.record.selectedCustomer = ret.record.customers[1]

\* C7 as stated: for a text with at least one roll line, and whatever the
\* other arguments of the builder, the rendered message is not the notice.
HasRollLine(lines) == \E i \in 1..Len(lines) : lines[i] \in RollLines
C7_RoundTripAnyCount ==
    (Rendered /\ HasRollLine(call.lines)) => ret.message # NoticeNoCustomers

\* C7, amended: for a text with at least one roll line and winnerCount >= 1,
\* whatever the other arguments of the builder, the rendered message is not
\* the notice.
C7_RoundTrip ==
    (Rendered /\ HasRollLine(call.lines) /\ call.winnerCount >= 1)
        => ret.message # NoticeNoCustomers
C7_Witness ==
    /\ Rendered
    /\ call.lines = <<LineNoise, LineRoll>>
    /\ call.winnerCount = 2
    /\ ret.message # NoticeNoCustomers
    /\ Len(ret.record.selectedCustomers) = 1

(***************************************************************************)
(* SpecRecords: the record collection of the manager's roll page: runs of  *)
(* the roll, deletions and the passing of time, from a filled-in form.     *)
(***************************************************************************)
MaxRecords == 2      \* most records in the collection
MaxCreated == 3      \* most records created in one behaviour
MaxClock == 1        \* latest value of Date.now()

NoticeNoRolls == <<"{no valid roll result was recognised; check the format of the chat log}">>
NoticeSlots == <<"{the slot count must be greater than 0}">>

\* Pasted texts of the roll page: one with two roll lines, one with none.
AppTexts == {Join(<<LinePlain, LineTagged>>, <<LF>>), Join(<<LineNoise, LineMax>>, <<LF>>)}

InitRecords ==
    /\ rollInput \in AppTexts
    /\ slots \in 1..MaxCount
    /\ pickStrategy \in Strategies
    /\ staffId \in StaffNames
    /\ serviceName \in ServiceNames
    /\ allRecords = <<>>
    /\ resultMessage = <<>>
    /\ now = 0
    /\ created = <<>>
    /\ NavInit
    /\ SyncOff
    /\ pc = "idle" /\ call = <<>> /\ ret = <<>>

HandleRunRoll_Prepend ==
    LET customers == parseBatchCustomerRolls(rollInput)
    IN IF Len(customers) = 0
       THEN /\ resultMessage' = NoticeNoRolls
            /\ UNCHANGED <<allRecords, created>>
       ELSE /\ Len(allRecords) < MaxRecords
            /\ Len(created) < MaxCreated
            /\ \E suffix \in RandomSuffixes :
                  LET record == createTransactionRecord(customers,
                                    IF staffId # <<>> THEN staffId ELSE Unfilled,
                                    IF serviceName # <<>> THEN serviceName ELSE Unfilled,
                                    slots, 0, NoRefusal, pickStrategy, slots, now, suffix)
                  IN /\ allRecords' = <<record>> \o allRecords
                     /\ resultMessage' = generateRollResultMessage(record)
                     /\ created' = Append(created, record.id)

\* handleRunRoll (part_001:348-374).
HandleRunRoll ==
    LET customers == parseBatchCustomerRolls(rollInput)
    IN IF Len(customers) = 0
       THEN /\ resultMessage' = NoticeNoRolls
            /\ UNCHANGED <<allRecords, created>>
       ELSE IF slots <= 0
       THEN /\ resultMessage' = NoticeSlots
            /\ UNCHANGED <<allRecords, created>>
       ELSE /\ Len(allRecords) < MaxRecords
            /\ Len(created) < MaxCreated
            /\ \E suffix \in RandomSuffixes :
                  LET record == createTransactionRecord(customers,
                                    IF staffId # <<>> THEN staffId ELSE Unfilled,
                                    IF serviceName # <<>> THEN serviceName ELSE Unfilled,
                                    slots, 0, NoRefusal, pickStrategy, slots, now, suffix)
                  IN /\ allRecords' = Append(allRecords, record)
                     /\ resultMessage' = generateRollResultMessage(record)
                     /\ created' = Append(created, record.id)

RunRoll ==
    /\ HandleRunRoll
    /\ UNCHANGED <<rollInput, slots, pickStrategy, staffId, serviceName, now,
                   navVars, syncVars, callVars>>

\* The delete button of the i-th listed record (part_001:1188-1192).
DeleteRecord(i) ==
    /\ i \in 1..Len(allRecords)
    /\ allRecords' = SelectSeq(allRecords, LAMBDA r : r.id # allRecords[i].id)
    /\ UNCHANGED <<rollInput, slots, pickStrategy, staffId, serviceName,
                   resultMessage, now, created, navVars, syncVars, callVars>>

\* The clear-all button, shown while there are records (part_001:1153-1163).
ClearAll ==
    /\ Len(allRecords) > 0
    /\ allRecords' = <<>>
    /\ resultMessage' = <<>>
    /\ UNCHANGED <<rollInput, slots, pickStrategy, staffId, serviceName,
                   now, created, navVars, syncVars, callVars>>

\* A millisecond passes: Date.now() returns the next value.
Tick ==
    /\ now < MaxClock
    /\ now' = now + 1
    /\ UNCHANGED <<rollInput, slots, pickStrategy, staffId, serviceName,
                   allRecords, resultMessage, created, navVars, syncVars, callVars>>

NextRecords ==
    \/ RunRoll
    \/ \E i \in 1..MaxRecords : DeleteRecord(i)
    \/ ClearAll
    \/ Tick
SpecRecords == InitRecords /\ [][NextRecords]_vars

\* C6: no two records ever created carry the same id.
C6_IdsUnique ==
    \A i, j \in 1..Len(created) : i # j => created[i] # created[j]

(***************************************************************************)
(* aggregateStaffStats (part_003:147-172).  The Map is a sequence of       *)
(* entries in insertion order; refusalSummary, an object, is a sequence of *)
(* (type, count) pairs in the order the keys were added.                   *)
(***************************************************************************)
\* r.staffId + '||' + r.serviceName
StatKey(r) == r.staffId \o <<"|", "|">> \o r.serviceName

\* Math.round(money * 0.5) for an integer money: halves round towards
\* positive infinity.
RoundHalf(money) == (money + 1) \div 2

\* The value set for a key the map does not hold yet (part_003:153-161).
NewStat(r) ==
    [staffId |-> r.staffId,
     serviceName |-> r.serviceName,
     totalCount |-> 0,
     transactionCount |-> 0,
     totalMoney |-> 0,
     refusalSummary |-> <<>>,
     salary |-> 0]

\* stat.refusalSummary[type] = (stat.refusalSummary[type] || 0) + 1
CountRefusal(summary, type) ==
    IF \E i \in 1..Len(summary) : summary[i].type = type
    THEN [i \in 1..Len(summary) |->
             IF summary[i].type = type
             THEN [type |-> type, count |-> summary[i].count + 1]
             ELSE summary[i]]
    ELSE Append(summary, [type |-> type, count |-> 1])

\* The body of the loop after the lookup (part_003:164-169).
AddToStat_CountsRecords(stat, r) ==
    [stat EXCEPT !.totalCount = @ + 1,
                 !.transactionCount = @ + 1,
                 !.totalMoney = @ + r.money,
                 !.refusalSummary = CountRefusal(@, r.refusalType),
                 !.salary = @ + RoundHalf(r.money)]
AddToStat_RoundsTotal(stat, r) ==
    [stat EXCEPT !.totalCount = @ + r.amount,
                 !.transactionCount = @ + 1,
                 !.totalMoney = @ + r.money,
                 !.refusalSummary = CountRefusal(@, r.refusalType),
                 !.salary = RoundHalf(stat.totalMoney + r.money)]
AddToStat(stat, r) ==
    [stat EXCEPT !.totalCount = @ + r.amount,
                 !.transactionCount = @ + 1,
                 !.totalMoney = @ + r.money,
                 !.refusalSummary = CountRefusal(@, r.refusalType),
                 !.salary = @ + RoundHalf(r.money)]

\* One turn of the loop (part_003:150-170) on the map.
FoldRecord(map, r) ==
    LET key == StatKey(r)
        withKey == IF \E i \in 1..Len(map) : map[i].key = key
                   THEN map
                   ELSE Append(map, [key |-> key, stat |-> NewStat(r)])
    IN [i \in 1..Len(withKey) |->
           IF withKey[i].key = key
           THEN [key |-> key, stat |-> AddToStat(withKey[i].stat, r)]
           ELSE withKey[i]]

RECURSIVE FoldRecords(_, _)
FoldRecords(map, records) ==
    IF records = <<>> THEN map
    ELSE FoldRecords(FoldRecord(map, Head(records)), Tail(records))

\* Array.from(map.values())
aggregateStaffStats(records) ==
    LET map == FoldRecords(<<>>, records)
    IN [i \in 1..Len(map) |-> map[i].stat]

(***************************************************************************)
(* SpecAgg: one call of aggregateStaffStats on a bounded collection.       *)
(***************************************************************************)
MaxAgg == 3          \* most records of an aggregated collection

\* Operator and service names of the aggregated records: free text, which
\* may hold the characters of the key's separator.
AggStaff == {<<"a">>, <<"a", "|", "|", "b">>}
AggServices == {<<"c">>, <<"b", "|", "|", "c">>}
AggMoney == {3, 4}

\* A record of the collection, as createTransactionRecord builds it.
AggRecord(staff, service, amount, money) ==
    createTransactionRecord(<<Roll(<<"A">>, 50)>>, staff, service, amount, money,
        IF amount = 1 THEN NoRefusal ELSE <<"{schedule conflict}">>,
        "min", amount, 0, <<"k", "3">>)
AggRecords ==
    {AggRecord(st, sv, am, mo) :
        st \in AggStaff, sv \in AggServices, am \in AmountValues, mo \in AggMoney}

InitAgg ==
    /\ AppInit
    /\ pc = "called"
    /\ call \in [op : {"aggregateStaffStats"}, records : SeqsUpTo(AggRecords, MaxAgg)]
    /\ ret = <<>>

AggregateReturn ==
    /\ pc = "called"
    /\ call.op = "aggregateStaffStats"
    /\ ret' = aggregateStaffStats(call.records)
    /\ pc' = "returned"
    /\ UNCHANGED <<call, appVars>>

NextAgg == AggregateReturn
SpecAgg == InitAgg /\ [][NextAgg]_vars

Aggregated == pc = "returned" /\ call.op = "aggregateStaffStats"

RECURSIVE SumSeq(_)
SumSeq(s) == IF s = <<>> THEN 0 ELSE Head(s) + SumSeq(Tail(s))

\* C8: the totalCount of the stats add up to the amount of the records, and
\* the totalMoney of the stats to the money of the records.
C8_Conservation ==
    Aggregated =>
        /\ SumSeq([i \in 1..Len(ret) |-> ret[i].totalCount])
              = SumSeq([i \in 1..Len(call.records) |-> call.records[i].amount])
        /\ SumSeq([i \in 1..Len(ret) |-> ret[i].totalMoney])
              = SumSeq([i \in 1..Len(call.records) |-> call.records[i].money])
C8_Witness ==
    /\ Aggregated
    /\ Len(call.records) = 3 /\ Len(ret) = 2
    /\ call.records[1].amount = 2 /\ call.records[2].amount = 1
    /\ ret[1].transactionCount = 2 /\ ret[1].totalCount = 3

\* C9: the stats hold exactly one entry per distinct (staffId, serviceName)
\* pair of the records, and the entry of a pair counts the records of that
\* pair and no others.
PairOf(r) == <<r.staffId, r.serviceName>>
C9_OneEntryPerPair ==
    Aggregated =>
        /\ Len(ret) = Cardinality({PairOf(call.records[i]) : i \in 1..Len(call.records)})
        /\ \A i \in 1..Len(call.records) :
              \E k \in 1..Len(ret) :
                  /\ PairOf(ret[k]) = PairOf(call.records[i])
                  /\ ret[k].transactionCount
                        = Cardinality({j \in 1..Len(call.records) :
                                          PairOf(call.records[j]) = PairOf(call.records[i])})

\* C10: the salary of an entry is the sum, over the records folded into the
\* entry, of half the record's money rounded per record, halves upwards.
HalfRoundedUp(m) == CHOOSE k \in 0..m : 2 * k \in {m, m + 1}
GroupOf(stat, records) == SelectSeq(records, LAMBDA r : StatKey(r) = StatKey(stat))
C10_SalaryPerRecord ==
    Aggregated =>
        \A k \in 1..Len(ret) :
            LET group == GroupOf(ret[k], call.records)
            IN /\ Len(group) = ret[k].transactionCount
               /\ ret[k].salary
                     = SumSeq([i \in 1..Len(group) |-> HalfRoundedUp(group[i].money)])
C10_Witness ==
    /\ Aggregated
    /\ Len(call.records) = 2 /\ Len(ret) = 1
    /\ call.records[1].money = 3 /\ call.records[2].money = 3
    /\ ret[1].salary = 4 /\ ret[1].totalMoney = 6

\* C11 as stated: the salary of an entry is half its totalMoney, rounded.
C11_SalaryIsHalfTotal ==
    Aggregated =>
        \A k \in 1..Len(ret) : ret[k].salary = HalfRoundedUp(ret[k].totalMoney)

OddMoney(group) == Cardinality({i \in 1..Len(group) : group[i].money % 2 = 1})
\* C11, amended: the salary of an entry is half its totalMoney, rounded, plus
\* one for every two records of odd money folded into the entry; so the two
\* are equal when fewer than two of the entry's records have odd money.
C11_SalaryOfTotal ==
    Aggregated =>
        \A k \in 1..Len(ret) :
            ret[k].salary
                = HalfRoundedUp(ret[k].totalMoney)
                  + (OddMoney(GroupOf(ret[k], call.records)) \div 2)
C11_Witness ==
    /\ Aggregated
    /\ Len(call.records) = 3 /\ Len(ret) = 1
    /\ \A i \in 1..3 : call.records[i].money = 3
    /\ ret[1].totalMoney = 9 /\ ret[1].salary = 6

(***************************************************************************)
(* mapToPublicRollResult and filterRecordsForView (part_003:131-144,       *)
(* 208-224).  A Date is the number of milliseconds since the epoch; the    *)
(* locale formats are computed for the UTC time zone.                      *)
(***************************************************************************)
IDCOMMA == "u+3001"     \* the separator of join

Pad2(n) == IF n < 10 THEN <<"0">> \o NatToString(n) ELSE NatToString(n)

\* toLocaleTimeString('zh-CN', {hour: '2-digit', minute: '2-digit'}): hh:mm.
toLocaleTimeString(t) ==
    LET minutes == (t \div 60000) % 1440
    IN Pad2(minutes \div 60) \o <<":">> \o Pad2(minutes % 60)

\* toLocaleString('zh-CN', {hour12: false}): the date, then hh:mm:ss.  The
\* date is written as the number of the day.
toLocaleString(t) ==
    LET seconds == (t \div 1000) % 86400
    IN <<"{day ">> \o NatToString(t \div 86400000) \o <<"}", " ">>
       \o Pad2(seconds \div 3600) \o <<":">> \o Pad2((seconds \div 60) % 60)
       \o <<":">> \o Pad2(seconds % 60)

\* `${c.customerId}(${c.rollValue})`
RollText(c) == c.customerId \o <<"(">> \o IntToString(c.rollValue) \o <<")">>
RollTexts(rolls) == Join([i \in 1..Len(rolls) |-> RollText(rolls[i])], <<IDCOMMA>>)

mapToPublicRollResult_WithId(tr) ==
    [id |-> tr.id,
     transactionTime |-> toLocaleTimeString(tr.time),
     customerRolls |-> RollTexts(tr.customers),
     selected |-> RollTexts(tr.selectedCustomers),
     staffId |-> tr.staffId,
     serviceName |-> tr.serviceName,
     amount |-> tr.amount,
     money |-> tr.money]

mapToPublicRollResult(tr) ==
    [transactionTime |-> toLocaleTimeString(tr.time),
     customerRolls |-> RollTexts(tr.customers),
     selected |-> RollTexts(tr.selectedCustomers),
     staffId |-> tr.staffId,
     serviceName |-> tr.serviceName,
     amount |-> tr.amount,
     money |-> tr.money]

\* The optional parameter viewerId: absent (undefined) or a string.
NoViewer == [present |-> FALSE, value |-> <<>>]
Viewer(id) == [present |-> TRUE, value |-> id]

ToLowerChar(c) == IF c = "A" THEN "a" ELSE c
ToLower(s) == [i \in 1..Len(s) |-> ToLowerChar(s[i])]
StaffMatches_IgnoreCase(r, viewer) ==
    viewer.present /\ ToLower(r.staffId) = ToLower(viewer.value)

\* r.staffId === viewerId, where staffId is a string.
StaffMatches(r, viewer) == viewer.present /\ r.staffId = viewer.value

\* {...r, refusalType: r.refusalType, time: r.time.toLocaleString(...)}
StaffCopy(r) == [r EXCEPT !.time = toLocaleString(r.time)]

ManagerView_OwnOnly(records, viewer) ==
    IF viewer.present
    THEN SelectSeq(records, LAMBDA r : StaffMatches(r, viewer))
    ELSE records

\* case 'manager': return records
ManagerView(records, viewer) == records

filterRecordsForView(records, role, viewer) ==
    CASE role = "manager" -> ManagerView(records, viewer)
      [] role = "staff" ->
            LET own == SelectSeq(records, LAMBDA r : StaffMatches(r, viewer))
            IN [i \in 1..Len(own) |-> StaffCopy(own[i])]
      [] role = "guest" ->
            [i \in 1..Len(records) |-> mapToPublicRollResult(records[i])]
      [] OTHER -> <<>>

(***************************************************************************)
(* SpecView: one call of filterRecordsForView on a bounded collection and  *)
(* the same call on a twin collection, which differs from the first in the *)
(* fields no public summary shows.                                         *)
(***************************************************************************)
MaxView == 2         \* most records of a viewed collection

Roles == {"manager", "staff", "guest"}
ViewStaff == {<<"a">>, <<"A">>}
ViewTimes == {0, 61000}
Viewers == {NoViewer} \cup {Viewer(id) : id \in ViewStaff}

ViewRecord(staff, clock, winnerCount) ==
    createTransactionRecord(<<Roll(<<"A">>, 50), Roll(<<"B">>, 90)>>, staff, <<"V">>,
        winnerCount, 5, NoRefusal, "max", winnerCount, clock, <<"k", "3">>)
ViewRecords ==
    {ViewRecord(st, t, wc) : st \in ViewStaff, t \in ViewTimes, wc \in AmountValues}

\* Two rolls as one roll whose name(value) text is the joined text of the two.
Merged(rolls) ==
    IF Len(rolls) = 2
    THEN <<Roll(RollText(rolls[1]) \o <<IDCOMMA>> \o rolls[2].customerId,
                rolls[2].rollValue)>>
    ELSE rolls

HiddenVariants == {"same", "hidden", "merged"}
Vary(r, variant) ==
    CASE variant = "hidden" ->
            [r EXCEPT !.id = generateId(r.time + 1, <<"z", "q">>),
                      !.refusalType = <<"{schedule conflict}">>,
                      !.pickStrategy = "min",
                      !.winnerCount = @ + 1,
                      !.selectedCustomer = Null]
      [] variant = "merged" ->
            [r EXCEPT !.customers = Merged(@),
                      !.selectedCustomers = Merged(@)]
      [] OTHER -> r

InitView ==
    /\ AppInit
    /\ pc = "called"
    /\ \E records \in SeqsUpTo(ViewRecords, MaxView), role \in Roles,
          viewer \in Viewers, variant \in HiddenVariants :
            call = [op |-> "filterRecordsForView",
                    records |-> records,
                    twin |-> [i \in 1..Len(records) |-> Vary(records[i], variant)],
                    role |-> role,
                    viewer |-> viewer]
    /\ ret = <<>>

FilterReturn ==
    /\ pc = "called"
    /\ call.op = "filterRecordsForView"
    /\ ret' = [view |-> filterRecordsForView(call.records, call.role, call.viewer),
               twin |-> filterRecordsForView(call.twin, call.role, call.viewer)]
    /\ pc' = "returned"
    /\ UNCHANGED <<call, appVars>>

NextView == FilterReturn
SpecView == InitView /\ [][NextView]_vars

Viewed == pc = "returned" /\ call.op = "filterRecordsForView"

\* The positions of the records of one operator, in increasing order.
RECURSIVE OwnIndices(_, _, _)
OwnIndices(records, id, i) ==
    IF i > Len(records) THEN <<>>
    ELSE (IF records[i].staffId = id THEN <<i>> ELSE <<>>)
         \o OwnIndices(records, id, i + 1)

\* C12: the staff view holds, in the order of the collection, the records
\* whose staffId is exactly the viewerId, each with every field but the time
\* as it is in the collection, and nothing when there is no viewerId.
C12_StaffView ==
    (Viewed /\ call.role = "staff") =>
        LET own == IF call.viewer.present
                   THEN OwnIndices(call.records, call.viewer.value, 1)
                   ELSE <<>>
        IN /\ Len(ret.view) = Len(own)
           /\ \A k \in 1..Len(own) :
                /\ DOMAIN ret.view[k] = DOMAIN call.records[own[k]]
                /\ \A f \in DOMAIN ret.view[k] \ {"time"} :
                        ret.view[k][f] = call.records[own[k]][f]
C12_Witness ==
    /\ Viewed /\ call.role = "staff"
    /\ call.viewer = Viewer(<<"a">>)
    /\ Len(call.records) = 2
    /\ call.records[1].staffId = <<"A">>
    /\ call.records[2].staffId = <<"a">>
    /\ Len(ret.view) = 1
    /\ ret.view[1].id = call.records[2].id

PublicFields ==
    {"transactionTime", "customerRolls", "selected", "staffId", "serviceName",
     "amount", "money"}

\* C13: the guest view holds one summary for each record, in the order of the
\* collection, with the public fields and no other, and it is the same for
\* the twin collection, whose records differ in id, refusalType, pickStrategy,
\* winnerCount and selectedCustomer, or in roll lists of the same joined text.
C13_GuestView ==
    (Viewed /\ call.role = "guest") =>
        /\ Len(ret.view) = Len(call.records)
        /\ \A i \in 1..Len(ret.view) :
            /\ DOMAIN ret.view[i] = PublicFields
            /\ ret.view[i].staffId = call.records[i].staffId
            /\ ret.view[i].serviceName = call.records[i].serviceName
            /\ ret.view[i].amount = call.records[i].amount
            /\ ret.view[i].money = call.records[i].money
        /\ ret.twin = ret.view
C13_Witness ==
    /\ Viewed /\ call.role = "guest"
    /\ Len(call.records) = 2
    /\ call.records[1].time # call.records[2].time
    /\ call.twin[1].id # call.records[1].id
    /\ call.twin[1].refusalType # call.records[1].refusalType
    /\ Len(ret.view) = 2
    /\ ret.view[1].transactionTime # ret.view[2].transactionTime
C13_WitnessMerged ==
    /\ Viewed /\ call.role = "guest"
    /\ Len(call.records) = 1
    /\ Len(call.records[1].customers) = 2
    /\ Len(call.twin[1].customers) = 1
    /\ ret.twin = ret.view

\* C14: the manager view is the collection itself, whatever the viewerId.
C14_ManagerView ==
    (Viewed /\ call.role = "manager") => ret.view = call.records
C14_Witness ==
    /\ Viewed /\ call.role = "manager"
    /\ call.viewer = Viewer(<<"a">>)
    /\ Len(call.records) = 2
    /\ call.records[1].staffId = <<"A">>
    /\ call.records[2].staffId = <<"a">>
    /\ Len(ret.view) = 2

(***************************************************************************)
(* SpecParse: one call of parseBatchCustomerRolls on a pasted text of a    *)
(* few lines.                                                              *)
(***************************************************************************)
MaxParse == 2        \* most lines of a parsed text

LineMaxAscii == <<"B", ZHI, "5", DIAN, "(", ZUI, DA, "9", ")">>
LineMaxOnly == <<FLP, ZUI, DA, "9", FRP>>
LineTwoTags == <<"[", "T", "]", "<", "U", ">", " ", "A", ZHI, "5", DIAN>>
LineFourDigits == <<"D", ZHI, "9", "9", "9", "9", DIAN>>
LineTrim == <<"!", " ", "A", " ", "!", ZHI, "5", DIAN>>
ParsePool ==
    LinePool \cup {LineMaxAscii, LineMaxOnly, LineTwoTags, LineFourDigits, LineTrim}

InitParse ==
    /\ AppInit
    /\ pc = "text"
    /\ \E lines \in SeqsUpTo(ParsePool, MaxParse) :
          call = [op |-> "parseBatchCustomerRolls",
                  lines |-> lines,
                  text |-> Join(lines, <<LF>>)]
    /\ ret = <<>>

NextParse == ParseReturn
SpecParse == InitParse /\ [][NextParse]_vars

Parsed == pc = "parsed" /\ call.op = "parseBatchCustomerRolls"

\* The annotation of the largest value: an opening parenthesis, ASCII or
\* full width, and right after it the two characters of "largest".
AnnotatedAt(line, i) ==
    /\ i + 2 <= Len(line)
    /\ line[i] \in {"(", FLP}
    /\ line[i + 1] = ZUI
    /\ line[i + 2] = DA
Annotated(line) == \E i \in 1..Len(line) : AnnotatedAt(line, i)

C16_WitnessFullWidth ==
    /\ Parsed
    /\ call.lines = <<LinePlain, LineMax>>
    /\ ret.customers = <<Roll(<<"A">>, 90)>>

\* The characters of the tags of the pool's lines; no display name of the
\* pool holds one of them.
TagChars == OpenChars \cup CloseChars \cup {"T", "U"}

\* C17: no customerId holds a bracket or a character of a tag, however many
\* tags the name fragment starts with.
C17_TagsStripped ==
    Parsed =>
        \A k \in 1..Len(ret.customers) :
            \A i \in 1..Len(ret.customers[k].customerId) :
                ret.customers[k].customerId[i] \notin TagChars

\* The entries of each line parsed on its own, one line after the other.
RECURSIVE LineByLine(_)
LineByLine(lines) ==
    IF lines = <<>> THEN <<>>
    ELSE parseBatchCustomerRolls(Head(lines)) \o LineByLine(Tail(lines))

\* C18: the entries of a text are the entries of its lines, each parsed on
\* its own, in the order of the lines; a line gives one entry at most, and a
\* line that comes twice gives its entry twice.
C18_LineOrder ==
    Parsed =>
        /\ ret.customers = LineByLine(call.lines)
        /\ \A i \in 1..Len(call.lines) :
                Len(parseBatchCustomerRolls(call.lines[i])) <= 1
C18_Witness ==
    /\ Parsed
    /\ call.lines = <<LineRoll, LinePlain>>
    /\ ret.customers = <<Roll(<<"C">>, 90), Roll(<<"A">>, 90)>>
C18_WitnessDuplicate ==
    /\ Parsed
    /\ call.lines = <<LinePlain, LinePlain>>
    /\ ret.customers = <<Roll(<<"A">>, 90), Roll(<<"A">>, 90)>>

\* A run of five digits or more somewhere in the line.
FiveDigits(line) ==
    \E i \in 1..(Len(line) - 4) : \A j \in i..(i + 4) : IsDigit(line[j])

\* C19: every entry has a customerId that is not empty and neither starts nor
\* ends with white space, and a rollValue from 0 to 9999; a line with a run
\* of five digits gives no entry.
C19_EntryShape ==
    Parsed =>
        /\ \A k \in 1..Len(ret.customers) :
            LET e == ret.customers[k]
            IN /\ e.customerId # <<>>
               /\ ~IsSpace(e.customerId[1])
               /\ ~IsSpace(e.customerId[Len(e.customerId)])
               /\ e.rollValue \in 0..9999
        /\ Len(ret.customers) <= Len(SelectSeq(call.lines, LAMBDA l : ~FiveDigits(l)))
        /\ \A i \in 1..Len(call.lines) :
                FiveDigits(call.lines[i])
                    => parseBatchCustomerRolls(call.lines[i]) = <<>>
C19_Witness ==
    /\ Parsed
    /\ call.lines = <<LineTrim, LineFourDigits>>
    /\ ret.customers = <<Roll(<<"A">>, 5), Roll(<<"D">>, 9999)>>
C19_WitnessFiveDigits ==
    /\ Parsed
    /\ call.lines = <<LineFiveDigits, LineFourDigits>>
    /\ ret.customers = <<Roll(<<"D">>, 9999)>>

(***************************************************************************)
(* SpecScenario: the two-line chat log of the end-to-end scenario, parsed, *)
(* built into a record and rendered.  The verb and the points marker are   *)
(* the source's own.                                                       *)
(***************************************************************************)
LineAlice ==
    <<"[", "T", "a", "g", "A", "]", " ", "A", "l", "i", "c", "e", " ",
      ZHI, CHU, LE, " ", "6", "7", "2", " ", DIAN, FEX>>
LineBob == <<"B", "o", "b", " ", ZHI, CHU, LE, " ", "1", "2", "7", " ", DIAN, FEX>>
ScenarioLines == <<LineAlice, LineBob>>
Alice == Roll(<<"A", "l", "i", "c", "e">>, 672)
Bob == Roll(<<"B", "o", "b">>, 127)

InitScenario ==
    /\ AppInit
    /\ pc = "text"
    /\ \E lines \in {ScenarioLines, <<LineBob, LineAlice>>} :
          call \in [op : {"scenario"},
                    lines : {lines},
                    text : {Join(lines, <<LF>>)},
                    staffId : StaffNames,
                    serviceName : ServiceNames,
                    amount : AmountValues,
                    money : MoneyValues,
                    refusalType : RefusalTypes,
                    pickStrategy : Strategies,
                    winnerCount : 0..MaxCount]
    /\ ret = <<>>

NextScenario == ParseReturn \/ BuildReturn \/ RenderReturn
SpecScenario == InitScenario /\ [][NextScenario]_vars

InScenario ==
    /\ call.op = "scenario"
    /\ call.lines = ScenarioLines
    /\ call.pickStrategy = "min"
    /\ call.winnerCount = 1

\* C20: the scenario's text parses to Alice with 672 and Bob with 127; the
\* selection of one under min is Bob with 127, and so is selectedCustomers of
\* the record; the message holds Bob's name, the wording of the lowest value
\* first and the slot count.
C20_Scenario ==
    (InScenario /\ pc # "text") =>
        /\ ret.customers = <<Alice, Bob>>
        /\ pickCustomersByRoll(ret.customers, "min", 1) = <<Bob>>
        /\ Built => ret.record.selectedCustomers = <<Bob>>
        /\ Rendered =>
            /\ Includes(ret.message, Bob.customerId)
            /\ ~Includes(ret.message, Alice.customerId)
            /\ Includes(ret.message, <<"{rule: }", "{lowest}">>)
            /\ Includes(ret.message,
                    <<"{] service, slots: }">> \o IntToString(call.amount))
C20_Witness ==
    /\ InScenario /\ Rendered
    /\ call.amount = 2
    /\ ret.customers = <<Alice, Bob>>
    /\ ret.record.selectedCustomers = <<Bob>>
    /\ Includes(ret.message, Bob.customerId)
    /\ Includes(ret.message, <<"{lowest}">>)
    /\ Includes(ret.message, <<"{] service, slots: }", "2">>)

(***************************************************************************)
(* buildStaffExportTable (part_003:175-203).  A row is a sequence of       *)
(* cells; a cell is a text or a number.                                    *)
(***************************************************************************)
FCOMMA == "u+FF0C"      \* the separator of the refusal texts

TableHeader ==
    <<<<"{staff id}">>, <<"{service name}">>, <<"{service count}">>,
      <<"{transactions}">>, <<"{total money (gold)}">>, <<"{refusal types}">>,
      <<"{salary (gold)}">>>>

\* `${rt} FLP ${stat.refusalSummary[rt]} {entries} FRP`
RefusalText(entry) ==
    entry.type \o <<FLP>> \o NatToString(entry.count) \o <<" ", "{entries}", FRP>>

\* Object.keys(...).filter(rt => rt !== no refusal).map(...).join(FCOMMA)
\*     || no refusal
RefSummaryText(summary) ==
    LET kept == SelectSeq(summary, LAMBDA e : e.type # NoRefusal)
        joined == Join([i \in 1..Len(kept) |-> RefusalText(kept[i])], <<FCOMMA>>)
    IN IF joined = <<>> THEN NoRefusal ELSE joined

StatRow(stat) ==
    <<stat.staffId, stat.serviceName, stat.totalCount, stat.transactionCount,
      stat.totalMoney, RefSummaryText(stat.refusalSummary), stat.salary>>

RECURSIVE SumField(_, _)
SumField(stats, field) ==
    IF stats = <<>> THEN 0 ELSE Head(stats)[field] + SumField(Tail(stats), field)

TotalsRow_CountsRows(stats) ==
    <<<<"{total}">>, <<"-">>, SumField(stats, "totalCount"),
      Len(stats), SumField(stats, "totalMoney"),
      <<"-">>, SumField(stats, "salary")>>

TotalsRow(stats) ==
    <<<<"{total}">>, <<"-">>, SumField(stats, "totalCount"),
      SumField(stats, "transactionCount"), SumField(stats, "totalMoney"),
      <<"-">>, SumField(stats, "salary")>>

buildStaffExportTable(stats) ==
    <<TableHeader>> \o [i \in 1..Len(stats) |-> StatRow(stats[i])]
        \o <<TotalsRow(stats)>>

(***************************************************************************)
(* SpecFrame: one call of a core operation, with the arrays and objects    *)
(* the call was handed as they are when it returns.  An array is written   *)
(* by sort, which orders the array it is called on; an object is written   *)
(* by an assignment to one of its fields.                                  *)
(***************************************************************************)
MaxFrame == 2        \* most entries of an array handed to a call

pickCustomersByRoll_SortsInput(customers, pick, winnerCount) ==
    IF Len(customers) = 0 \/ winnerCount <= 0
    THEN [customers |-> customers, result |-> <<>>]
    ELSE LET heap == [customers |-> SortRolls(customers, pick)]
         IN [customers |-> heap.customers,
             result |-> Slice(heap.customers, 0, winnerCount)]

\* part_003:70-74: sorted is a new array, [...customers], and sort orders it.
pickCustomersByRoll_Heap(customers, pick, winnerCount) ==
    IF Len(customers) = 0 \/ winnerCount <= 0
    THEN [customers |-> customers, result |-> <<>>]
    ELSE LET spread == [customers |-> customers, sorted |-> customers]
             heap == [spread EXCEPT !.sorted = SortRolls(@, pick)]
         IN [customers |-> heap.customers,
             result |-> Slice(heap.sorted, 0, winnerCount)]

\* part_003:88-102: the record is a new object; customers is stored in it and
\* handed to pickCustomersByRoll, and neither writes it.
createTransactionRecord_Heap(customers, staff, service, amount, money, refusalType, pick, winnerCount, clock, suffix) ==
    LET picked == pickCustomersByRoll_Heap(customers, pick, winnerCount)
    IN [customers |-> picked.customers,
        result |-> createTransactionRecord(picked.customers, staff, service, amount,
                      money, refusalType, pick, winnerCount, clock, suffix)]

\* part_003:150-171: the assignments of lines 165-169 write stat, an object
\* of the map made in line 153; the records are read.
aggregateStaffStats_Heap(records) ==
    [records |-> records, result |-> aggregateStaffStats(records)]

\* part_003:176-202: push writes table, a new array; the stats are read.
buildStaffExportTable_Heap(stats) ==
    [stats |-> stats, result |-> buildStaffExportTable(stats)]

\* part_003:209-223: filter and map return new arrays, and {...r} is a new
\* object; the manager is handed the collection itself.
filterRecordsForView_Heap(records, role, viewer) ==
    [records |-> records, result |-> filterRecordsForView(records, role, viewer)]

FrameRecords == SeqsUpTo(ViewRecords, MaxFrame)
FrameCalls ==
    [op : {"pickCustomersByRoll", "createTransactionRecord"},
     customers : SeqsUpTo(SampleRolls, MaxFrame),
     pick : Strategies,
     winnerCount : 0..MaxFrame]
    \cup [op : {"aggregateStaffStats"}, records : FrameRecords]
    \cup {[op |-> "buildStaffExportTable", stats |-> aggregateStaffStats(records)] :
             records \in FrameRecords}
    \cup [op : {"filterRecordsForView"}, records : FrameRecords,
          role : Roles, viewer : Viewers]

InitFrame ==
    /\ AppInit
    /\ pc = "called"
    /\ call \in FrameCalls
    /\ ret = <<>>

FramePick ==
    /\ pc = "called"
    /\ call.op = "pickCustomersByRoll"
    /\ ret' = pickCustomersByRoll_Heap(call.customers, call.pick, call.winnerCount)
    /\ pc' = "done"
    /\ UNCHANGED <<call, appVars>>

FrameCreate ==
    /\ pc = "called"
    /\ call.op = "createTransactionRecord"
    /\ \E suffix \in RandomSuffixes :
          /\ ret' = createTransactionRecord_Heap(call.customers, <<"S">>, <<"V">>,
                        call.winnerCount, 5, NoRefusal, call.pick, call.winnerCount,
                        now, suffix)
          /\ created' = Append(created, ret'.result.id)
    /\ pc' = "done"
    /\ UNCHANGED <<call, rollInput, slots, pickStrategy, staffId, serviceName,
                   allRecords, resultMessage, now, navVars, syncVars>>

FrameAggregate ==
    /\ pc = "called"
    /\ call.op = "aggregateStaffStats"
    /\ ret' = aggregateStaffStats_Heap(call.records)
    /\ pc' = "done"
    /\ UNCHANGED <<call, appVars>>

FrameExport ==
    /\ pc = "called"
    /\ call.op = "buildStaffExportTable"
    /\ ret' = buildStaffExportTable_Heap(call.stats)
    /\ pc' = "done"
    /\ UNCHANGED <<call, appVars>>

FrameFilter ==
    /\ pc = "called"
    /\ call.op = "filterRecordsForView"
    /\ ret' = filterRecordsForView_Heap(call.records, call.role, call.viewer)
    /\ pc' = "done"
    /\ UNCHANGED <<call, appVars>>

NextFrame == FramePick \/ FrameCreate \/ FrameAggregate \/ FrameExport \/ FrameFilter
SpecFrame == InitFrame /\ [][NextFrame]_vars

Done(op) == pc = "done" /\ call.op = op

\* C15: when a core operation returns, the roll sequence, the record
\* collection or the stats it was handed are as they were at the call, and
\* what it returns is what the operation computes.
C15_InputsKept ==
    /\ Done("pickCustomersByRoll") =>
        /\ ret.customers = call.customers
        /\ ret.result
            = pickCustomersByRoll(call.customers, call.pick, call.winnerCount)
    /\ Done("createTransactionRecord") =>
        /\ ret.customers = call.customers
        /\ ret.result.customers = call.customers
    /\ Done("aggregateStaffStats") => ret.records = call.records
    /\ Done("buildStaffExportTable") => ret.stats = call.stats
    /\ Done("filterRecordsForView") => ret.records = call.records
C15_Witness ==
    /\ Done("pickCustomersByRoll")
    /\ call.customers = <<Roll(<<"A">>, 50), Roll(<<"B">>, 90)>>
    /\ call.pick = "max"
    /\ call.winnerCount = 2
    /\ ret.result = <<Roll(<<"B">>, 90), Roll(<<"A">>, 50)>>
    /\ ret.customers = call.customers

(***************************************************************************)
(* The message of a rendered record (SpecRound).                           *)
(***************************************************************************)
\* part occurs in text from position p on.
OccursAt(text, part, p) ==
    /\ p >= 1
    /\ p + Len(part) - 1 <= Len(text)
    /\ SubSeq(text, p, p + Len(part) - 1) = part
FirstAt(text, part) ==
    IF \E p \in 1..Len(text) : OccursAt(text, part, p)
    THEN CHOOSE p \in 1..Len(text) :
            /\ OccursAt(text, part, p)
            /\ \A q \in 1..(p - 1) : ~OccursAt(text, part, q)
    ELSE 0

\* The item of the i-th selected customer: its number, a dot, the name and,
\* in full-width parentheses, the value and the points marker.
NumberedItem(c, i) ==
    NatToString(i) \o <<".", " ">> \o c.customerId
        \o <<FLP>> \o NatToString(c.rollValue) \o <<DIAN, FRP>>

\* C21: the message is the notice exactly when selectedCustomers is empty;
\* otherwise it names the number of selected customers and holds the item of
\* every selected customer, numbered from 1, the items in selection order.
C21_NoticeOrList ==
    Rendered =>
        LET sel == ret.record.selectedCustomers
            at(i) == FirstAt(ret.message, NumberedItem(sel[i], i))
        IN /\ (ret.message = NoticeNoCustomers) <=> (sel = <<>>)
           /\ sel # <<>> =>
                /\ Includes(ret.message,
                        <<"{roll finished; selected }">> \o NatToString(Len(sel))
                            \o <<"{ customers: }">>)
                /\ \A i \in 1..Len(sel) : at(i) > 0
                /\ \A i \in 1..(Len(sel) - 1) : at(i) < at(i + 1)
C21_Witness ==
    /\ Rendered
    /\ Len(ret.record.selectedCustomers) = 2
    /\ ret.record.selectedCustomers[1].customerId = <<"B">>
    /\ FirstAt(ret.message, <<"1", ".", " ", "B">>) > 0
    /\ FirstAt(ret.message, <<"1", ".", " ", "B">>)
            < FirstAt(ret.message, <<"2", ".", " ", "A">>)
C21_WitnessNotice ==
    /\ Rendered
    /\ ret.record.customers # <<>>
    /\ ret.record.selectedCustomers = <<>>
    /\ ret.message = NoticeNoCustomers

\* C22: in the message of a record with a selected customer, the money line
\* is there only if money is not 0, and the refusal line only if refusalType
\* is not the no-refusal value; with money 0 and no refusal neither is there.
C22_OptionalLines ==
    (Rendered /\ ret.record.selectedCustomers # <<>>) =>
        /\ Includes(ret.message, <<"{amount: }">>) => ret.record.money # 0
        /\ Includes(ret.message, <<"{refusal type: }">>)
                => ret.record.refusalType # NoRefusal
        /\ (ret.record.money = 0 /\ ret.record.refusalType = NoRefusal) =>
                /\ ~Includes(ret.message, <<"{amount: }">>)
                /\ ~Includes(ret.message, <<"{refusal type: }">>)
                /\ Occurrences(ret.message, LF) = 2
C22_Witness ==
    /\ Rendered /\ ret.record.selectedCustomers # <<>>
    /\ ret.record.money = 0 /\ ret.record.refusalType = NoRefusal
    /\ ~Includes(ret.message, <<"{amount: }">>)
    /\ ~Includes(ret.message, <<"{refusal type: }">>)
C22_WitnessBoth ==
    /\ Rendered /\ ret.record.selectedCustomers # <<>>
    /\ ret.record.money = 5 /\ ret.record.refusalType # NoRefusal
    /\ Includes(ret.message, <<"{amount: }", "5", "{ gold}">>)
    /\ Includes(ret.message, <<"{refusal type: }">>)

(***************************************************************************)
(* SpecExport: a bounded collection is aggregated, and the stats are       *)
(* handed to buildStaffExportTable.                                        *)
(***************************************************************************)
MaxExport == 2       \* most records of an exported collection

InitExport ==
    /\ AppInit
    /\ pc = "called"
    /\ call \in [op : {"buildStaffExportTable"},
                 records : SeqsUpTo(AggRecords, MaxExport)]
    /\ ret = <<>>

ExportAggregate ==
    /\ pc = "called"
    /\ call.op = "buildStaffExportTable"
    /\ ret' = [stats |-> aggregateStaffStats(call.records)]
    /\ pc' = "aggregated"
    /\ UNCHANGED <<call, appVars>>

ExportTable ==
    /\ pc = "aggregated"
    /\ ret' = [stats |-> ret.stats, table |-> buildStaffExportTable(ret.stats)]
    /\ pc' = "exported"
    /\ UNCHANGED <<call, appVars>>

NextExport == ExportAggregate \/ ExportTable
SpecExport == InitExport /\ [][NextExport]_vars

Exported == pc = "exported"

\* The sum of the numbers in column col of rows from..to of a table.
RECURSIVE SumColumn(_, _, _, _)
SumColumn(table, col, from, to) ==
    IF from > to THEN 0
    ELSE table[from][col] + SumColumn(table, col, from + 1, to)

SummedColumns == {3, 4, 5, 7}

\* C23: the table has a header row, one row for each stat in order and a
\* totals row, each of 7 cells; the count, transaction, money and salary cells
\* of the totals row are the sums of those cells of the stat rows, and the
\* sums of amount, the number of records and the sum of money of the
\* collection; its second and sixth cell are '-'.
C23_ExportTable ==
    Exported =>
        LET table == ret.table
            n == Len(ret.stats)
            totals == table[n + 2]
        IN /\ Len(table) = n + 2
           /\ \A k \in 1..Len(table) : Len(table[k]) = 7
           /\ table[1] = TableHeader
           /\ \A i \in 1..n :
                /\ table[i + 1][1] = ret.stats[i].staffId
                /\ table[i + 1][2] = ret.stats[i].serviceName
                /\ table[i + 1][3] = ret.stats[i].totalCount
                /\ table[i + 1][4] = ret.stats[i].transactionCount
                /\ table[i + 1][5] = ret.stats[i].totalMoney
                /\ table[i + 1][7] = ret.stats[i].salary
           /\ \A col \in SummedColumns :
                totals[col] = SumColumn(table, col, 2, n + 1)
           /\ totals[3] = SumSeq([i \in 1..Len(call.records) |-> call.records[i].amount])
           /\ totals[4] = Len(call.records)
           /\ totals[5] = SumSeq([i \in 1..Len(call.records) |-> call.records[i].money])
           /\ totals[2] = <<"-">>
           /\ totals[6] = <<"-">>
C23_Witness ==
    /\ Exported
    /\ Len(call.records) = 2
    /\ Len(ret.stats) = 2
    /\ Len(ret.table) = 4
    /\ call.records[1].amount = 2 /\ call.records[2].amount = 1
    /\ ret.table[4][3] = 3
    /\ ret.table[4][4] = 2
C23_WitnessOneGroup ==
    /\ Exported
    /\ Len(call.records) = 2
    /\ Len(ret.stats) = 1
    /\ ret.table[3][4] = 2
    /\ ret.table[2][6] # NoRefusal

(***************************************************************************)
(* Login, navigation and the form of the announcement and roll sections    *)
(* (part_001:313-327, 561-579, 799-804, 839-961, 988-1119).                *)
(***************************************************************************)
Pages == {"welcome", "announcement", "roll", "stats", "staff", "guest"}
ManagerPassword == <<"1", "5", "3", "5", "1">>
TypedPasswords == {<<>>, <<"1", "5">>, ManagerPassword}

\* canAccessPage (part_001:561-576).
canAccessPage(page) ==
    CASE page = "welcome" -> TRUE
      [] page \in {"announcement", "roll"} -> userRole = "manager"
      [] page = "stats" -> userRole = "staff"
      [] page = "staff" -> userRole = "manager"
      [] page = "guest" -> userRole \in {"manager", "staff"}
      [] OTHER -> FALSE

\* if (currentPage === 'welcome' || !userRole) return the welcome screen
WelcomeShown == currentPage = "welcome" \/ userRole = NoRole

\* {currentPage === page && canAccessPage(page) && (...)}
SectionShown(page) == ~WelcomeShown /\ currentPage = page /\ canAccessPage(page)

formVars == <<rollInput, slots, pickStrategy, staffId, serviceName>>
recordVars == <<allRecords, resultMessage, now, created>>

\* The password field of the welcome screen (part_001:654).
TypePassword(value) ==
    /\ WelcomeShown
    /\ loginPassword' = value
    /\ UNCHANGED <<currentPage, userRole, formVars, recordVars, syncVars, callVars>>

handleLogin_NoPassword(role) ==
    IF role = "manager"
    THEN userRole' = "manager" /\ currentPage' = "announcement"
    ELSE userRole' = "staff" /\ currentPage' = "stats"

\* handleLogin (part_001:313-327).
handleLogin(role) ==
    IF role = "manager"
    THEN IF loginPassword = ManagerPassword
         THEN userRole' = "manager" /\ currentPage' = "announcement"
         ELSE UNCHANGED <<userRole, currentPage>>
    ELSE userRole' = "staff" /\ currentPage' = "stats"

\* The two login buttons of the welcome screen (part_001:677-684, 722).
Login(role) ==
    /\ WelcomeShown
    /\ handleLogin(role)
    /\ UNCHANGED <<loginPassword, formVars, recordVars, syncVars, callVars>>

\* The logout button of the header (part_001:799-804).
Logout ==
    /\ ~WelcomeShown
    /\ userRole' = NoRole
    /\ currentPage' = "welcome"
    /\ loginPassword' = <<>>
    /\ UNCHANGED <<formVars, recordVars, syncVars, callVars>>

\* The buttons of the navigation bar (part_001:839-961).
NavButtons(role) ==
    CASE role = "manager" -> {"announcement", "roll", "staff", "guest"}
      [] role = "staff" -> {"stats", "guest"}
      [] OTHER -> {}
Navigate(page) ==
    /\ ~WelcomeShown
    /\ page \in NavButtons(userRole)
    /\ currentPage' = page
    /\ UNCHANGED <<userRole, loginPassword, formVars, recordVars, syncVars, callVars>>

\* /^\d+$/.test(value)
IsDigits(value) == value # <<>> /\ \A i \in 1..Len(value) : IsDigit(value[i])

slotsOnChange_AnyNumber(value) ==
    IF value = <<>> THEN 1
    ELSE IF IsDigits(value) THEN ParseInt(value)
    ELSE slots

\* The onChange of the slots field (part_001:1040-1054): the next slots.
slotsOnChange(value) ==
    IF value = <<>> THEN 1
    ELSE IF IsDigits(value) /\ ParseInt(value) > 0 THEN ParseInt(value)
    ELSE slots

SlotInputs == {<<>>, <<"0">>, <<"2">>, <<"-", "1">>, <<"x">>}

\* The fields of the announcement section (part_001:988, 1015, 1040) and the
\* text area of the roll section (part_001:1112).
SetStaffId(value) ==
    /\ staffId' = value
    /\ UNCHANGED <<rollInput, slots, pickStrategy, serviceName, recordVars,
                   navVars, syncVars, callVars>>
SetServiceName(value) ==
    /\ serviceName' = value
    /\ UNCHANGED <<rollInput, slots, pickStrategy, staffId, recordVars,
                   navVars, syncVars, callVars>>
SetSlots(value) ==
    /\ slots' = slotsOnChange(value)
    /\ UNCHANGED <<rollInput, pickStrategy, staffId, serviceName, recordVars,
                   navVars, syncVars, callVars>>
SetRollInput(value) ==
    /\ rollInput' = value
    /\ UNCHANGED <<slots, pickStrategy, staffId, serviceName, recordVars,
                   navVars, syncVars, callVars>>

(***************************************************************************)
(* SpecForm: the manager fills in the form and runs the roll; the service  *)
(* name is left blank.                                                     *)
(***************************************************************************)
FormRollText == Join(<<LinePlain, LineTagged>>, <<LF>>)
NoiseText == Join(<<LineNoise, LineMax>>, <<LF>>)
FormTexts == {<<>>, FormRollText, NoiseText}

InitForm ==
    /\ AppInit
    /\ pc = "idle" /\ call = <<>> /\ ret = <<>>

NextForm ==
    \/ \E value \in StaffNames : SetStaffId(value)
    \/ \E value \in SlotInputs : SetSlots(value)
    \/ \E value \in FormTexts : SetRollInput(value)
    \/ RunRoll
SpecForm == InitForm /\ [][NextForm]_vars

\* A step in which the run of the roll shows: the collection, the records
\* created or the result message change.
RunShows ==
    \/ allRecords' # allRecords
    \/ created' # created
    \/ resultMessage' # resultMessage

\* C26: a run of the roll with a text that has a roll line, and slots above
\* 0, puts one new record after the records of the collection, which stay as
\* they are; any other run leaves the collection and the records created as
\* they are and puts a notice in the result message.
C26_RunAppends ==
    [][RunShows =>
            IF rollInput = FormRollText /\ slots > 0
            THEN /\ Len(allRecords') = Len(allRecords) + 1
                 /\ SubSeq(allRecords', 1, Len(allRecords)) = allRecords
                 /\ Len(created') = Len(created) + 1
                 /\ allRecords'[Len(allRecords')].id = created'[Len(created')]
            ELSE /\ allRecords' = allRecords
                 /\ created' = created
                 /\ resultMessage' \in {NoticeNoRolls, NoticeSlots}
      ]_vars
C26_Witness ==
    /\ Len(allRecords) = 2
    /\ allRecords[1].staffId # allRecords[2].staffId
    /\ rollInput = NoiseText
    /\ resultMessage = NoticeNoRolls

\* C27: every record of the collection has a staffId and a serviceName that
\* are not empty, an amount of 1 or more, a winnerCount equal to the amount
\* and from 1 to amount selected customers; slots is 1 or more.
C27_RecordsWellFormed ==
    /\ slots >= 1
    /\ \A i \in 1..Len(allRecords) :
        LET r == allRecords[i]
        IN /\ r.staffId \in (StaffNames \ {<<>>}) \cup {Unfilled}
           /\ r.serviceName \in (ServiceNames \ {<<>>}) \cup {Unfilled}
           /\ r.amount >= 1
           /\ r.winnerCount = r.amount
           /\ Len(r.selectedCustomers) \in 1..r.amount
C27_Witness ==
    /\ slots = 2
    /\ Len(allRecords) = 2
    /\ allRecords[1].staffId = Unfilled /\ allRecords[1].serviceName = Unfilled
    /\ allRecords[1].amount = 1
    /\ allRecords[2].staffId = <<"S">> /\ allRecords[2].serviceName = Unfilled
    /\ allRecords[2].amount = 2 /\ Len(allRecords[2].selectedCustomers) = 2

(***************************************************************************)
(* SpecNav: logins, navigation and logouts, and the edits of the form in   *)
(* the sections that show it.                                              *)
(***************************************************************************)
InitNav ==
    /\ AppInit
    /\ pc = "idle" /\ call = <<>> /\ ret = <<>>

NextNav ==
    \/ \E value \in TypedPasswords : TypePassword(value)
    \/ \E role \in {"manager", "staff"} : Login(role)
    \/ Logout
    \/ \E page \in Pages : Navigate(page)
    \/ /\ SectionShown("announcement")
       /\ \/ \E value \in StaffNames : SetStaffId(value)
          \/ \E value \in ServiceNames : SetServiceName(value)
          \/ \E value \in SlotInputs : SetSlots(value)
    \/ /\ SectionShown("roll")
       /\ \E value \in FormTexts : SetRollInput(value)
SpecNav == InitNav /\ [][NextNav]_vars

RolePages ==
    /\ userRole \in {NoRole, "manager", "staff"}
    /\ userRole = NoRole => (WelcomeShown /\ currentPage = "welcome")
    /\ userRole = "manager" => currentPage \in {"announcement", "roll", "staff", "guest"}
    /\ userRole = "staff" => currentPage \in {"stats", "guest"}
    /\ \A page \in Pages : SectionShown(page) => canAccessPage(page)
    /\ ~WelcomeShown => SectionShown(currentPage)

RoleSteps ==
    /\ (userRole # "manager" /\ userRole' = "manager") =>
            /\ loginPassword = ManagerPassword
            /\ userRole = NoRole
    /\ (userRole # NoRole /\ userRole' # userRole) =>
            /\ userRole' = NoRole
            /\ currentPage' = "welcome"
            /\ loginPassword' = <<>>
    /\ (formVars' # formVars) => userRole = "manager"

\* C30: with no role the welcome screen is shown; the manager is on one of
\* announcement, roll, staff and guest, and the staff on stats or guest; the
\* section shown is one canAccessPage allows; the role becomes manager only
\* by a login with the manager's password; and a role is left only for no
\* role, the welcome page and an empty password field.
C30_RolePages == [](RolePages) /\ [][RoleSteps]_vars
C30_Witness ==
    /\ userRole = "staff"
    /\ currentPage = "guest"
    /\ loginPassword = <<"1", "5">>
    /\ staffId = <<"S">>
    /\ rollInput = NoiseText

(***************************************************************************)
(* The instances of App and the stores they share (part_001:66-310,        *)
(* 1157-1192).  The sync code moves the records as they are, so a record   *)
(* is written here by its number: 0 is a record kept from an earlier       *)
(* session, k the k-th record the manager's runs of the roll create.       *)
(*                                                                         *)
(* Without a database the instances are tabs of one browser and share its  *)
(* localStorage; with a database they are on devices of their own.  An     *)
(* instance handles an event when its render and its effects are done.     *)
(* The listener's event for an instance's own write carries the collection *)
(* the instance already shows, and is left out.                            *)
(***************************************************************************)
MaxSent == 2         \* most data-updates the save effect of one instance posts
MaxTime == 2         \* latest value of Date.now()
MaxChanges == 2      \* most changes the manager makes

Clients == {1, 2}
Manager == 1

\* getItem returns null, or the text setItem was given; a snapshot's val()
\* is null, or the array set was given.
NoItem == [present |-> FALSE, records |-> <<>>]
Item(records) == [present |-> TRUE, records |-> records]

\* set(dataRef, records): the database keeps no empty array.
FirebaseSet(records) == IF records = <<>> THEN NoItem ELSE Item(records)

\* The browser whose localStorage instance c uses.
BrowserOf(c) == IF database THEN c ELSE 1

\* An instance of App that is not open, and one right after its first render
\* (part_001:43-77): the load effect and the save effect are still to run.
\* origin (history) says where the collection last set came from; changes
\* and sent (history) count the manager's changes and what the instance sent.
ClosedTab ==
    [open |-> FALSE,
     allRecords |-> <<>>,
     update |-> NoItem,
     effects |-> <<>>,
     isInitialLoadComplete |-> FALSE,
     isReceivingSync |-> FALSE,
     lastSyncTime |-> 0,
     isUpdatingFirebase |-> FALSE,
     upload |-> NoItem,
     listening |-> FALSE,
     inbox |-> <<>>,
     origin |-> "none",
     changes |-> 0,
     sent |-> 0]
MountedTab == [ClosedTab EXCEPT !.open = TRUE, !.effects = <<"load", "save">>]

\* The render and the effects of an instance are done.
Settled(c) ==
    /\ tabs[c].open
    /\ tabs[c].effects = <<>>
    /\ ~tabs[c].update.present

\* The messages of the channel and the events of the listener.
DataUpdate(records, timestamp, origin) ==
    [type |-> "data-update", records |-> records, timestamp |-> timestamp,
     origin |-> origin]
SyncRequest == [type |-> "sync-request"]
Snapshot(value) == [type |-> "snapshot", value |-> value]

\* The instances a message posted by c is delivered to: the other instances
\* whose channel is open (part_001:85-91); instances on devices of their own
\* share no channel.
Receivers(c) == {d \in Clients \ {c} : tabs[d].open /\ ~database}
\* channel.postMessage(msg) by c, on the tabs t.
Post(t, c, msg) ==
    [d \in Clients |->
        IF d \in Receivers(c)
        THEN [t[d] EXCEPT !.inbox = Append(@, msg)]
        ELSE t[d]]

syncFrame == <<formVars, allRecords, resultMessage, created, navVars, callVars>>

\* syncToFirebase (part_001:249-262) up to its await, on the tab t: nothing
\* is sent while an earlier upload is on its way.
syncToFirebase(t, records) ==
    IF t.isUpdatingFirebase
    THEN t
    ELSE [t EXCEPT !.isUpdatingFirebase = TRUE, !.upload = Item(records)]

\* A tab or a device opens the application.
Open(c) ==
    /\ ~tabs[c].open
    /\ tabs' = [tabs EXCEPT ![c] = MountedTab]
    /\ UNCHANGED <<database, storage, remote, now, syncFrame>>

\* The load effect (part_001:142-246): loadData runs to its end at once,
\* and the collection it sets is shown by the next render only.
LoadEffect(c) ==
    /\ tabs[c].open
    /\ tabs[c].effects # <<>>
    /\ Head(tabs[c].effects) = "load"
    /\ LET t == [tabs[c] EXCEPT !.effects = Tail(@),
                                !.isInitialLoadComplete = TRUE]
           saved == storage[BrowserOf(c)]
       IN  tabs' =
             IF database
             THEN [tabs EXCEPT ![c] =
                     [t EXCEPT !.listening = TRUE,
                               !.inbox = Append(@, Snapshot(remote))]]
             ELSE IF saved.present
             THEN [tabs EXCEPT ![c] =
                     [t EXCEPT !.update = Item(saved.records),
                               !.origin = "storage"]]
             ELSE Post([tabs EXCEPT ![c] = t], c, SyncRequest)
    /\ UNCHANGED <<database, storage, remote, now, syncFrame>>

\* The save effect (part_001:265-310), run after the first render and after
\* every render with a new collection.
SaveEffect(c) ==
    /\ tabs[c].open
    /\ tabs[c].effects # <<>>
    /\ Head(tabs[c].effects) = "save"
    /\ (~database /\ tabs[c].allRecords # <<>>) => tabs[c].sent < MaxSent
    /\ LET t == [tabs[c] EXCEPT !.effects = Tail(@)]
       IN  IF ~t.isInitialLoadComplete \/ t.isReceivingSync
           THEN /\ tabs' = [tabs EXCEPT ![c] = t]
                /\ UNCHANGED storage
           ELSE /\ storage' = [storage EXCEPT ![BrowserOf(c)] = Item(t.allRecords)]
                /\ tabs' =
                     IF database
                     THEN [tabs EXCEPT ![c] = syncToFirebase(t, t.allRecords)]
                     ELSE IF Len(t.allRecords) > 0
                     THEN Post([tabs EXCEPT ![c] =
                                  [t EXCEPT !.lastSyncTime = now,
                                            !.sent = @ + 1]],
                               c, DataUpdate(t.allRecords, now, t.origin))
                     ELSE [tabs EXCEPT ![c] = t]
    /\ UNCHANGED <<database, remote, now, syncFrame>>

\* The render after a setAllRecords: the new collection is shown, and the
\* effects that depend on it are to run (part_001:80-82, 265-310).
Render(c) ==
    /\ tabs[c].open
    /\ tabs[c].effects = <<>>
    /\ tabs[c].update.present
    /\ tabs' = [tabs EXCEPT ![c] =
                  [@ EXCEPT !.allRecords = tabs[c].update.records,
                            !.update = NoItem,
                            !.effects = <<"save">>]]
    /\ UNCHANGED <<database, storage, remote, now, syncFrame>>

\* setAllRecords(records) by a handler of the manager's pages.
LocalChange(records) ==
    /\ Settled(Manager)
    /\ tabs[Manager].changes < MaxChanges
    /\ tabs' = [tabs EXCEPT ![Manager] =
                  [@ EXCEPT !.update = Item(records),
                            !.origin = "local",
                            !.changes = @ + 1]]
    /\ UNCHANGED <<database, storage, remote, now, syncFrame>>

\* handleRunRoll adds the record it created (part_001:372).
AddRecord ==
    /\ tabs[Manager].open
    /\ LocalChange(Append(tabs[Manager].allRecords, tabs[Manager].changes + 1))

\* The delete button of record i (part_001:1187-1192).
RemoveRecord(i) ==
    /\ i \in 1..Len(tabs[Manager].allRecords)
    /\ LocalChange(SelectSeq(tabs[Manager].allRecords,
                             LAMBDA r : r # tabs[Manager].allRecords[i]))

\* The clear-all button, shown while there are records (part_001:1153-1163).
ClearRecords ==
    /\ tabs[Manager].allRecords # <<>>
    /\ LocalChange(<<>>)

\* channel.onmessage for a data-update (part_001:91-118): isReceivingSyncRef
\* is set and, in the finally, cleared before the handler returns.
ReceiveUpdate(c) ==
    /\ Settled(c)
    /\ tabs[c].inbox # <<>>
    /\ Head(tabs[c].inbox).type = "data-update"
    /\ LET msg == Head(tabs[c].inbox)
           t == [tabs[c] EXCEPT !.inbox = Tail(@)]
       IN  tabs' = [tabs EXCEPT ![c] =
                      IF msg.timestamp # t.lastSyncTime
                      THEN [t EXCEPT !.update = Item(msg.records),
                                     !.origin = "sync",
                                     !.isReceivingSync = FALSE]
                      ELSE t]
    /\ UNCHANGED <<database, storage, remote, now, syncFrame>>

\* channel.onmessage for a sync-request (part_001:119-132).
ReceiveRequest(c) ==
    /\ Settled(c)
    /\ tabs[c].inbox # <<>>
    /\ Head(tabs[c].inbox).type = "sync-request"
    /\ LET t == [tabs[c] EXCEPT !.inbox = Tail(@)]
       IN  tabs' =
             IF Len(t.allRecords) > 0
             THEN Post([tabs EXCEPT ![c] = [t EXCEPT !.lastSyncTime = now]],
                       c, DataUpdate(t.allRecords, now, "reply"))
             ELSE [tabs EXCEPT ![c] = t]
    /\ UNCHANGED <<database, storage, remote, now, syncFrame>>

\* The listener's callback (part_001:151-189).
ReceiveSnapshot(c) ==
    /\ Settled(c)
    /\ tabs[c].inbox # <<>>
    /\ Head(tabs[c].inbox).type = "snapshot"
    /\ LET data == Head(tabs[c].inbox).value
           t == [tabs[c] EXCEPT !.inbox = Tail(@)]
           saved == storage[BrowserOf(c)]
       IN  IF data.present /\ Len(data.records) > 0
           THEN /\ tabs' = [tabs EXCEPT ![c] =
                              [t EXCEPT !.update = Item(data.records),
                                        !.origin = "sync",
                                        !.isReceivingSync = FALSE]]
                /\ storage' = [storage EXCEPT ![BrowserOf(c)] = Item(data.records)]
           ELSE /\ tabs' = [tabs EXCEPT ![c] =
                              IF saved.present
                              THEN LET u == [t EXCEPT !.update = Item(saved.records),
                                                      !.origin = "storage"]
                                   IN  IF Len(saved.records) > 0
                                       THEN syncToFirebase(u, saved.records)
                                       ELSE u
                              ELSE t]
                /\ UNCHANGED storage
    /\ UNCHANGED <<database, remote, now, syncFrame>>

\* The set of syncToFirebase is done (part_001:255-261): the database holds
\* the value, and tells the listeners of the other devices when it changed.
UploadDone(c) ==
    /\ tabs[c].upload.present
    /\ remote' = FirebaseSet(tabs[c].upload.records)
    /\ tabs' = [d \in Clients |->
                  IF d = c
                  THEN [tabs[d] EXCEPT !.isUpdatingFirebase = FALSE,
                                       !.upload = NoItem]
                  ELSE IF tabs[d].listening /\ remote' # remote
                  THEN [tabs[d] EXCEPT !.inbox = Append(@, Snapshot(remote'))]
                  ELSE tabs[d]]
    /\ UNCHANGED <<database, storage, now, syncFrame>>

\* Date.now() moves on.
SyncTick ==
    /\ now < MaxTime
    /\ now' = now + 1
    /\ UNCHANGED <<syncVars, syncFrame>>

\* What localStorage holds when the application is opened: nothing, or the
\* record of an earlier session.
StoredAtStart == {NoItem, Item(<<0>>)}

\* No instance is open yet; the database, when there is one, is new.  call
\* keeps what the browsers stored at the start.
InitSync ==
    /\ NavInit
    /\ rollInput = <<>> /\ slots = 1 /\ pickStrategy = "min"
    /\ staffId = <<>> /\ serviceName = <<>>
    /\ allRecords = <<>> /\ resultMessage = <<>> /\ created = <<>>
    /\ now = 1
    /\ database \in BOOLEAN
    /\ tabs = [c \in Clients |-> ClosedTab]
    /\ storage \in [Clients -> StoredAtStart]
    /\ remote = NoItem
    /\ pc = "idle" /\ call = storage /\ ret = <<>>

NextSync ==
    \/ \E c \in Clients : Open(c)
    \/ \E c \in Clients : LoadEffect(c)
    \/ \E c \in Clients : SaveEffect(c)
    \/ \E c \in Clients : Render(c)
    \/ AddRecord
    \/ \E i \in 1..(MaxChanges + 1) : RemoveRecord(i)
    \/ ClearRecords
    \/ \E c \in Clients : ReceiveUpdate(c)
    \/ \E c \in Clients : ReceiveRequest(c)
    \/ \E c \in Clients : ReceiveSnapshot(c)
    \/ \E c \in Clients : UploadDone(c)
    \/ SyncTick

SpecSync == InitSync /\ [][NextSync]_vars

\* Nothing is left to do: every open instance has rendered and run its
\* effects, no message or event waits, and no upload is on its way.
Quiescent ==
    \A c \in Clients :
        tabs[c].open =>
            /\ Settled(c)
            /\ tabs[c].inbox = <<>>
            /\ ~tabs[c].upload.present

\* C28: while the manager has changed nothing, the records localStorage held
\* when the application was opened are still what it holds, at every step of
\* the start-up.
C28_StoredKept ==
    tabs[Manager].changes = 0 =>
        \A b \in Clients : call[b].present => storage[b] = call[b]

\* C24: with a database, once nothing is left to do the database holds the
\* collection the manager's instance shows.
C24_RemoteLatest ==
    (database /\ tabs[Manager].open /\ Quiescent) =>
        remote = FirebaseSet(tabs[Manager].allRecords)

\* C25: once nothing is left to do, every open instance shows the collection
\* the manager's instance shows.
C25_Propagated ==
    (tabs[Manager].open /\ Quiescent) =>
        \A c \in Clients :
            tabs[c].open => tabs[c].allRecords = tabs[Manager].allRecords

\* C29: no instance is sent, by the save effect of another, a collection
\* that instance had itself received as sync data.
C29_NoRepublish ==
    \A c \in Clients :
        \A k \in 1..Len(tabs[c].inbox) :
            tabs[c].inbox[k].type = "data-update" =>
                tabs[c].inbox[k].origin # "sync"

====
